---- MODULE Spec2Model ----
(***************************************************************************)
(* Shuffle-ZKP: the threshold-sum round (src/example/sum_cmp.go) and the   *)
(* ranked-vote round (src/vote/vote.go).  Clients split / encode their     *)
(* contribution, blind it with dummies, commit, hand the values to a       *)
(* shuffler; the server draws a challenge, the clients answer with         *)
(* PublicProd and a proof, the server verifies proofs, compares the        *)
(* fingerprint of the shuffled values with the product of the PublicProds  *)
(* and computes the aggregate.                                             *)
(*                                                                         *)
(* Sequences are 1-based here; index i of the model is index i-1 of the    *)
(* Go slices.                                                              *)
(***************************************************************************)
EXTENDS Integers, Sequences, FiniteSets, TLC

\* ------------------------------------------------------------------------
\* The scalar field.  fr_bn254.Element is the prime field of BN254; the model
\* keeps the arithmetic and uses a small prime order.
FieldModulus == 4001
Field == 0 .. (FieldModulus - 1)

NewElement(v) == v % FieldModulus
One == NewElement(1)
Add(a, b) == (a + b) % FieldModulus
Sub(a, b) == ((a - b) + FieldModulus) % FieldModulus
Mul(a, b) == (a * b) % FieldModulus

\* ------------------------------------------------------------------------
\* Sizes of the round (the Go constants are 80 / 1000 clients, 80 shares,
\* 10 candidates; DummyVecLength is computed by ComputeDummyNum).
ClientNum == 3
PrivateVecLength == 2
DummyVecLength == 1
\* The vote round: clients, candidates, and the number of checked proofs.
VoteClientNum == 2
CandidateNum == 3
MaxNumOfCheckProof == 1
\* rand.Shuffle draws j uniformly from 0..i; the model draws it from the
\* MaxSwapChoices positions nearest to i.
MaxSwapChoices == 2

\* randomFr() is uniform over the field; each call site draws from a sample.
ShareSample == {1, FieldModulus - 1}
DummySample == {0, 2}
SaltSample == {7}
ChallengeSample == {0, 3}
\* The value the untrusted shuffler may substitute.
TamperSample == {1, 5}

\* Inputs of the single calls of the pure functions.
MaxVecLen == 3
MaxFnSwaps == 2
\* The largest number of candidates a single ranking is encoded for.
MaxCandidates == 4
ElemSample == {0, 1, FieldModulus - 1}
RSample == {0, 1, 2, FieldModulus - 1}
SecretSample == {0, 1, 999, FieldModulus + 2}
\* lambda, and the numbers of clients and of corrupted clients, handed to
\* ComputeDummyNum.
LambdaSample == {80}
PartySample == {0, 1, 3, 5, 80}
\* Assignments handed to the sum circuit: private vectors, thresholds, masks.
CircuitVecSample == {<<1, 2, 3, 4, 5>>, <<998, 1>>, <<1000, FieldModulus - 1>>}
CircuitThresholdSample == {10, 15, 998, 2996}
CircuitMaskSample == {1, 2}
\* The values a prover may assert as entries of SortedCandidate.
RankSample == (0 .. (CandidateNum - 1)) \cup {5}

\* secretVal[i] = uint64(999)
SecretVal == 999
\* PublicThreshold: 2000 in the source; a configuration input of the round.
Thresholds == {998, 2996}

Clients == 1 .. ClientNum
Voters == 1 .. VoteClientNum
\* Candidate ids, and the number of comparison pairs of one ranking.
Candidates == 0 .. (CandidateNum - 1)
PairNum == (CandidateNum * (CandidateNum - 1)) \div 2

\* ------------------------------------------------------------------------
\* ComputeDummyNum: uint64 and float64 arithmetic.  The model keeps the
\* wrap-around of the unsigned subtraction at a width of UintBits bits (64 in
\* the source) and computes the logarithm in fixed point, FracBits binary
\* digits after the point.
UintBits == 8
FracBits == 10
FracOne == 2 ^ FracBits
\* math.Log2(e) for e = 2.71828...: 1.442695..., in units of 1 / FracOne.
Log2E == 1477

\* n - t on unsigned integers.
UintSub(n, t) == ((n - t) + 2 ^ UintBits) % (2 ^ UintBits)

RECURSIVE FloorLog2(_)
\* The integer part of math.Log2(d), d >= 1.
FloorLog2(d) == IF d < 2 THEN 0 ELSE 1 + FloorLog2(d \div 2)

RECURSIVE Log2Frac(_, _)
\* The fractional digits of math.Log2 of a mantissa m in [1, 2), m in units
\* of 1 / 4096: square, and shift when the square reaches 2.
Log2Frac(m, bits) ==
    IF bits = 0 THEN 0
    ELSE LET sq == (m * m) \div 4096
         IN  IF sq >= 8192
             THEN 2 ^ (bits - 1) + Log2Frac(sq \div 2, bits - 1)
             ELSE Log2Frac(sq, bits - 1)

\* math.Log2(float64(d)) for d >= 1, in units of 1 / FracOne.
Log2Fixed(d) ==
    LET k == FloorLog2(d)
    IN  k * FracOne + Log2Frac((d * 4096) \div (2 ^ k), FracBits)

\* uint64(x) of a negative float64 x: the Go specification leaves the value
\* to the implementation.
UintOfNegativeFloat == {0, 2 ^ (UintBits - 1)}

\* ComputeDummyNum(lambda, n, t): the values the call can return.
\* tmp := float64(2*lambda+254) / (Log2(float64(n-t)) - Log2(e)) + 2;
\* return uint64(Ceil(tmp)).  Log2(0) is -Inf, the quotient then -0.
ComputeDummyNum(lambda, n, t) ==
    LET d == UintSub(n, t)
        num == 2 * lambda + 254
        den == Log2Fixed(d) - Log2E
    IN  IF d = 0 THEN {2}
        ELSE IF den > 0 THEN {(num * FracOne + den - 1) \div den + 2}
        ELSE IF (num * FracOne) \div (0 - den) >= 2 THEN UintOfNegativeFloat
        ELSE {2 - (num * FracOne) \div (0 - den)}

\* ------------------------------------------------------------------------
\* Pure functions.

RECURSIVE PolyEvalFrom(_, _, _, _)
PolyEvalFrom(vec, r, i, prod) ==
    IF i > Len(vec) THEN prod
    ELSE PolyEvalFrom(vec, r, i + 1, Mul(prod, Add(vec[i], r)))

\* Mutant of PolyEval: the first factor is vec[0], not vec[0] + r.
PolyEvalFirstRaw(vec, r) ==
    IF Len(vec) = 0 THEN "panic"
    ELSE PolyEvalFrom(vec, r, 2, vec[1])

\* prod := vec[0] + r; for i := 1..: prod *= vec[i] + r.  vec[0] of an empty
\* slice is an index-out-of-range panic.
PolyEval(vec, r) ==
    IF Len(vec) = 0 THEN "panic"
    ELSE PolyEvalFrom(vec, r, 2, Add(vec[1], r))

RECURSIVE MulAll(_, _, _)
\* for i := from..len-1: acc *= vec[i]
MulAll(vec, i, acc) ==
    IF i > Len(vec) THEN acc ELSE MulAll(vec, i + 1, Mul(acc, vec[i]))

RECURSIVE AddAll(_, _, _)
\* for i := from..len-1: acc += vec[i]
AddAll(vec, i, acc) ==
    IF i > Len(vec) THEN acc ELSE AddAll(vec, i + 1, Add(acc, vec[i]))

RECURSIVE SplitFirst(_, _, _)
\* share[0] after the loop: secret, minus every random share in turn.
SplitFirst(first, rs, j) ==
    IF j > Len(rs) THEN first ELSE SplitFirst(Sub(first, rs[j]), rs, j + 1)

\* Mutant of Split: share[0] stays the secret.
SplitNoSubtract(secret, rs) == <<NewElement(secret)>> \o rs

\* splittedSecretVal[i]: share[0] = secret - sum(random shares), then the
\* random shares.
Split(secret, rs) == <<SplitFirst(NewElement(secret), rs, 1)>> \o rs

\* secretMask[i]: One times every dummy.
MaskOf(dummies) == MulAll(dummies, 1, One)

\* MiMC over the written field elements; the hash is an external collaborator
\* and is modelled symbolically: the digest determines, and is determined by,
\* the written sequence.
MiMCSum(written) == [mimc |-> written]

\* Mutant of Commit: the salt is written before the mask.
CommitSaltFirst(values, mask, salt) == MiMCSum(values \o <<salt, mask>>)

\* commitment[i]: hash of every share, then the mask, then the salt.
Commit(values, mask, salt) == MiMCSum(values \o <<mask, salt>>)

\* Mutant of Swap: only position i is assigned.
SwapOverwrite(s, i, j) == [s EXCEPT ![i] = s[j]]

\* allX[i], allX[j] = allX[j], allX[i]
Swap(s, i, j) == [s EXCEPT ![i] = s[j], ![j] = s[i]]

\* The j's rand.Shuffle may draw at position i (1-based: 1..i).
SwapChoices(i) == {j \in 1 .. i : i - j < MaxSwapChoices}

\* Mutant of SumThresholdClause: the first share alone is compared.
SumThresholdClauseFirstShare(a) == a.PrivateVec[1] <= a.PublicThreshold

\* sumAndCmpCircuit.Define: the three assertions over an assignment.
SumThresholdClause(a) == AddAll(a.PrivateVec, 2, a.PrivateVec[1]) <= a.PublicThreshold
SumProdClause(a) == Mul(PolyEval(a.PrivateVec, a.PublicR), a.PrivateMask) = a.PublicProd
SumCommitClause(a) ==
    a.PublicCommitment = MiMCSum(a.PrivateVec \o <<a.PrivateMask, a.PrivateSalt>>)
\* Mutant of SumCircuit: the commitment is not asserted.
SumCircuitNoCommit(a) == SumThresholdClause(a) /\ SumProdClause(a)

SumCircuit(a) == SumThresholdClause(a) /\ SumProdClause(a) /\ SumCommitClause(a)

\* witness.Public(): the public part of an assignment.
PublicOf(a) ==
    [PublicThreshold |-> a.PublicThreshold, PublicR |-> a.PublicR,
     PublicProd |-> a.PublicProd, PublicCommitment |-> a.PublicCommitment]

\* groth16.Prove: a proof of the public statement when the assignment
\* satisfies the circuit, otherwise an error (dropped by the caller) and a
\* nil proof.
NilProof == [nil |-> TRUE]
Prove(sat, a) == IF sat THEN [nil |-> FALSE, stmt |-> PublicOf(a)] ELSE NilProof

\* groth16.Verify on a non-nil proof: nil error iff the proof is for this
\* public witness.
VerifyOk(proof, publicWitness) == ~proof.nil /\ proof.stmt = publicWitness

\* GenProofGroth16 (sum variant).
SumAssignment(secretShares, publicRFr, mask, com, salt, threshold) ==
    [PrivateVec |-> secretShares,
     PublicThreshold |-> NewElement(threshold),
     PrivateMask |-> mask,
     PublicR |-> publicRFr,
     PublicProd |-> Mul(PolyEval(secretShares, publicRFr), mask),
     PublicCommitment |-> com,
     PrivateSalt |-> salt]

\* Mutant of SumGenProofGroth16: the client evaluates at its own r = 1.
SumGenProofFixedR(secretShares, publicRFr, mask, com, salt, threshold) ==
    LET a == SumAssignment(secretShares, NewElement(1), mask, com, salt, threshold)
    IN  [publicWitness |-> PublicOf(a),
         publicProd |-> a.PublicProd,
         proof |-> Prove(SumCircuit(a), a)]

SumGenProofGroth16(secretShares, publicRFr, mask, com, salt, threshold) ==
    LET a == SumAssignment(secretShares, publicRFr, mask, com, salt, threshold)
    IN  [publicWitness |-> PublicOf(a),
         publicProd |-> a.PublicProd,
         proof |-> Prove(SumCircuit(a), a)]

\* ------------------------------------------------------------------------
\* The vote variant: ClientState and VoteCircuit.

RECURSIVE FisherYates(_, _, _)
\* rand.Shuffle(len(s), swap) with the draws js: for i := n-1 down to 1,
\* swap(i, js[i]).
FisherYates(s, js, i) ==
    IF i < 2 THEN s ELSE FisherYates(Swap(s, i, js[i]), js, i - 1)

\* Every sequence of draws rand.Shuffle can make over n elements.
Draws(n) == {js \in [1 .. n -> 1 .. n] : \A i \in 1 .. n : js[i] <= i}

RECURSIVE ShuffleFromKeepFirst(_, _)
\* Mutant of ShuffleFrom: the loop ends one position early, the first element
\* never moves.
ShuffleFromKeepFirst(S, i) ==
    IF i < 3 THEN S
    ELSE ShuffleFromKeepFirst({Swap(s, i, j) : s \in S, j \in 1 .. i}, i - 1)

RECURSIVE ShuffleFrom(_, _)
\* rand.Shuffle from position i down, on each of the sequences S, with every
\* j it can draw: for i down to 1, swap(i, j) with j uniform in 0..i.
ShuffleFrom(S, i) ==
    IF i < 2 THEN S
    ELSE ShuffleFrom({Swap(s, i, j) : s \in S, j \in 1 .. i}, i - 1)

\* Every sequence one call of rand.Shuffle can leave in place of s.
ShuffleOutcomes(s) == ShuffleFrom({s}, Len(s))

RECURSIVE PairPositionsByColumn(_, _, _)
\* Mutant of PairPositionsN: the pairs are listed by their later position.
PairPositionsByColumn(n, i, j) ==
    IF i + 1 >= n THEN <<>>
    ELSE IF j > i THEN PairPositionsByColumn(n, i + 1, 0)
    ELSE <<(<<j, i + 1>>)>> \o PairPositionsByColumn(n, i, j + 1)

\* The pair loop of ClientState.Init over n candidates, from (i, j) on: the
\* position pair (i, i+j+1) behind every pair number (all 0-based, as in the
\* source): the rows i = 0.., each with the columns j = 0..n-i-2.
RECURSIVE PairPositionsN(_, _, _)
PairPositionsN(n, i, j) ==
    IF i >= n THEN <<>>
    ELSE IF j >= n - i - 1 THEN PairPositionsN(n, i + 1, 0)
    ELSE <<(<<i, i + j + 1>>)>> \o PairPositionsN(n, i, j + 1)

\* The loop with the constant CandidateNum of the round.
PairPositions(i, j) == PairPositionsN(CandidateNum, i, j)

\* Mutant of PairListOf: q is read at position i+j.
PairListLaterOffByOne(n, sorted) ==
    LET pp == PairPositionsN(n, 0, 0)
    IN  [first |-> [k \in 1 .. Len(pp) |-> sorted[pp[k][1] + 1]],
         second |-> [k \in 1 .. Len(pp) |-> sorted[pp[k][2]]]]

\* PairFirst and PairSecond as the loop fills them from a ranking of n
\* candidates (a 1-based sequence).
PairListOf(n, sorted) ==
    LET pp == PairPositionsN(n, 0, 0)
    IN  [first |-> [k \in 1 .. Len(pp) |-> sorted[pp[k][1] + 1]],
         second |-> [k \in 1 .. Len(pp) |-> sorted[pp[k][2] + 1]]]

\* PairFirst / PairSecond of ClientState.Init in the round.
PairFirstOf(sorted) == PairListOf(CandidateNum, sorted).first
PairSecondOf(sorted) == PairListOf(CandidateNum, sorted).second

\* tmp = c; tmp *= first; tmp += second
PackWith(c, first, second) == Add(Mul(NewElement(c), first), second)

\* tmp = CandidateNum * first + second
Pack(first, second) == PackWith(CandidateNum, first, second)

\* PrivateX of ClientState.Init.
PrivateXOf(first, second) == [k \in 1 .. Len(first) |-> Pack(first[k], second[k])]

\* ClientState.Init with the random draws made explicit.
ClientInit(js, ds, salt) ==
    LET sorted == FisherYates([i \in 1 .. CandidateNum |-> NewElement(i - 1)], js, CandidateNum)
        first == PairFirstOf(sorted)
        second == PairSecondOf(sorted)
        x == PrivateXOf(first, second)
        mask == MaskOf(ds)
    IN  [SortedCandidate |-> sorted, PairFirst |-> first, PairSecond |-> second,
         PrivateX |-> x, PrivateY |-> ds,
         PublicCom |-> Commit(x, mask, salt),
         PrivateMask |-> mask, PrivateSalt |-> salt,
         PublicProd |-> 0, PublicR |-> 0]

\* ClientState.ComputePolyEval
ComputePolyEval(c, publicR) == Mul(PolyEval(c.PrivateX, publicR), c.PrivateMask)

\* ClientState.GenAssignment (PublicProd is stored in the client as well).
GenAssignment(c, publicR) ==
    [SortedCandidate |-> c.SortedCandidate,
     PairFirstVar |-> c.PairFirst,
     PairSecondVar |-> c.PairSecond,
     PrivateMask |-> c.PrivateMask,
     PublicR |-> publicR,
     PublicProd |-> ComputePolyEval(c, publicR),
     PublicCommitment |-> c.PublicCom,
     PrivateSalt |-> c.PrivateSalt]

\* Mutant of VotePermutationClause: the sums of the two vectors are compared.
VotePermutationClauseSum(a) ==
    AddAll([i \in 1 .. CandidateNum |-> NewElement(i - 1)], 1, 0)
        = AddAll(a.SortedCandidate, 1, 0)

\* VoteCircuit.Define: the four groups of assertions.
VotePermutationClause(a) ==
    PolyEval([i \in 1 .. CandidateNum |-> NewElement(i - 1)], a.PublicR)
        = PolyEval(a.SortedCandidate, a.PublicR)
VotePairClause(a) ==
    LET pp == PairPositions(0, 0)
    IN  \A k \in 1 .. Len(pp) :
            /\ a.PairFirstVar[k] = a.SortedCandidate[pp[k][1] + 1]
            /\ a.PairSecondVar[k] = a.SortedCandidate[pp[k][2] + 1]
\* Mutant of PackInCircuit: the loser is multiplied by CandidateNum.
PackInCircuitSwapped(first, second) ==
    Add(Mul(second, NewElement(CandidateNum)), first)

\* api.Add(api.Mul(PairFirstVar, CandidateNum), PairSecondVar)
PackInCircuit(first, second) ==
    Add(Mul(first, NewElement(CandidateNum)), second)

VoteProcessedVec(a) ==
    [k \in 1 .. Len(a.PairFirstVar) |-> PackInCircuit(a.PairFirstVar[k], a.PairSecondVar[k])]
VoteProdClause(a) ==
    Mul(PolyEval(VoteProcessedVec(a), a.PublicR), a.PrivateMask) = a.PublicProd
VoteCommitClause(a) ==
    a.PublicCommitment = MiMCSum(VoteProcessedVec(a) \o <<a.PrivateMask, a.PrivateSalt>>)
\* Mutant of VoteCircuit: the pair entries are not tied to SortedCandidate.
VoteCircuitNoPairs(a) ==
    /\ VotePermutationClause(a)
    /\ VoteProdClause(a)
    /\ VoteCommitClause(a)

VoteCircuit(a) ==
    /\ VotePermutationClause(a)
    /\ VotePairClause(a)
    /\ VoteProdClause(a)
    /\ VoteCommitClause(a)

VotePublicOf(a) ==
    [PublicR |-> a.PublicR, PublicProd |-> a.PublicProd,
     PublicCommitment |-> a.PublicCommitment]

\* GenProofGroth16 (vote variant): proof and public witness.
VoteGenProofGroth16(a) ==
    [proof |-> IF VoteCircuit(a) THEN [nil |-> FALSE, stmt |-> VotePublicOf(a)] ELSE NilProof,
     publicWitness |-> VotePublicOf(a)]

\* Mutant of Tally: the pair is counted in the cell of the lower candidate.
TallyTransposed(first, second) ==
    [a \in Candidates |-> [b \in Candidates |->
        Cardinality({k \in 1 .. Len(first) : first[k] = b /\ second[k] = a})]]

\* comparisonVoteCnt after counting every shuffled pair.
Tally(first, second) ==
    [a \in Candidates |-> [b \in Candidates |->
        Cardinality({k \in 1 .. Len(first) : first[k] = a /\ second[k] = b})]]

RECURSIVE RowScanTieWins(_, _, _, _)
\* Mutant of RowScan: a tie does not clear ok.
RowScanTieWins(cnt, i, j, warned) ==
    IF j >= CandidateNum THEN [ok |-> TRUE, warned |-> warned]
    ELSE IF i # j /\ cnt[i][j] < cnt[j][i] THEN [ok |-> FALSE, warned |-> warned]
    ELSE RowScanTieWins(cnt, i, j + 1,
                        warned \/ (i # j /\ cnt[i][j] + cnt[j][i] # VoteClientNum))

RECURSIVE RowScan(_, _, _, _)
\* The inner loop over j for candidate i: ok is cleared, and the loop left,
\* at the first j that i does not beat; "The comparison is not correct" is
\* printed for every j reached whose two counts do not add up to ClientNum.
RowScan(cnt, i, j, warned) ==
    IF j >= CandidateNum THEN [ok |-> TRUE, warned |-> warned]
    ELSE IF i # j /\ cnt[i][j] <= cnt[j][i] THEN [ok |-> FALSE, warned |-> warned]
    ELSE RowScan(cnt, i, j + 1,
                 warned \/ (i # j /\ cnt[i][j] + cnt[j][i] # VoteClientNum))

RECURSIVE WinnerScanSkipLast(_, _, _, _)
\* Mutant of WinnerScan: the outer loop ends before the last candidate.
WinnerScanSkipLast(cnt, i, winner, warned) ==
    IF i >= CandidateNum - 1 THEN [soleWinner |-> winner, warned |-> warned]
    ELSE LET row == RowScan(cnt, i, 0, warned)
         IN  WinnerScanSkipLast(cnt, i + 1, IF row.ok THEN i ELSE winner, row.warned)

RECURSIVE WinnerScan(_, _, _, _)
\* The outer loop: soleWinner is the last i whose row is ok, -1 if none.
WinnerScan(cnt, i, winner, warned) ==
    IF i >= CandidateNum THEN [soleWinner |-> winner, warned |-> warned]
    ELSE LET row == RowScan(cnt, i, 0, warned)
         IN  WinnerScan(cnt, i + 1, IF row.ok THEN i ELSE winner, row.warned)

\* ------------------------------------------------------------------------
\* State.  One round of ShuffleZKGroth16 (pc from "step1") or of VoteGroth16
\* (pc from "voteInit").
VARIABLES
    pc,                 \* position in the round
    idx,                \* the running loop index
    publicRFr,          \* the challenge (publicR in the vote), -1 before it is drawn
    prodFromClients,    \* prodFromClient in the vote
    prodFromShuffler,   \* -1 before the consistency check
    verifyErrors,       \* clients named by "verification error in client i"
    consistency,        \* what the consistency check printed
    tampered,           \* has the shuffler substituted a value
    \* ShuffleZKGroth16
    threshold,          \* PublicThreshold of this round
    splittedSecretVal,  \* per client: its share vector
    secretMask,         \* per client: product of its dummies
    splittedSecretMask, \* per client: its dummies
    commitment,         \* per client: its commitment
    secretSalt,         \* per client: its salt
    allSecretVal,       \* what the shuffler holds / delivers: shares
    allMask,            \* what the shuffler holds / delivers: dummies
    allProof,           \* submissions to the server
    reportedSum,        \* "The computed sum is ...", -1 before
    \* VoteGroth16
    clients,            \* the ClientStates initialised so far
    shuffledPairFirst,
    shuffledPairSecond,
    allDummies,
    allAssignment,
    allSubmission,
    comparisonVoteCnt,  \* <<>> before the tally
    soleWinner,         \* -2 before the scan, then -1 or the winner
    notCorrect,         \* was "The comparison is not correct" printed
    \* a single call of a pure function: its inputs and its result
    fn

roundVars == <<publicRFr, prodFromClients, prodFromShuffler, verifyErrors, consistency>>
clientVars == <<splittedSecretVal, secretMask, splittedSecretMask, commitment, secretSalt>>
sumVars == <<threshold, clientVars, allSecretVal, allMask, allProof, reportedSum>>
voteVars == <<clients, shuffledPairFirst, shuffledPairSecond, allDummies, allAssignment,
              allSubmission, comparisonVoteCnt, soleWinner, notCorrect>>
vars == <<pc, idx, roundVars, tampered, sumVars, voteVars, fn>>

\* No pure-function call in progress.
NoFn == [op |-> "none", args |-> <<>>, out |-> <<>>, done |-> FALSE]

\* Everything a round starts from, but its entry point.
RoundInit ==
    /\ idx = 1
    /\ publicRFr = -1
    /\ prodFromClients = -1
    /\ prodFromShuffler = -1
    /\ verifyErrors = {}
    /\ consistency = "pending"
    /\ tampered = FALSE
    /\ splittedSecretVal = [i \in Clients |-> <<>>]
    /\ secretMask = [i \in Clients |-> -1]
    /\ splittedSecretMask = [i \in Clients |-> <<>>]
    /\ commitment = [i \in Clients |-> [mimc |-> <<>>]]
    /\ secretSalt = [i \in Clients |-> -1]
    /\ allSecretVal = <<>>
    /\ allMask = <<>>
    /\ allProof = <<>>
    /\ reportedSum = -1
    /\ clients = <<>>
    /\ shuffledPairFirst = <<>>
    /\ shuffledPairSecond = <<>>
    /\ allDummies = <<>>
    /\ allAssignment = <<>>
    /\ allSubmission = <<>>
    /\ comparisonVoteCnt = <<>>
    /\ soleWinner = -2
    /\ notCorrect = FALSE

Init ==
    /\ \/ pc = "step1" /\ threshold \in Thresholds
       \/ pc = "voteInit" /\ threshold = 0
    /\ fn = NoFn
    /\ RoundInit

\* ------------------------------------------------------------------------
\* ShuffleZKGroth16.

\* Step 1, one client: split, mask, commit, submit to the shuffler.
SumClientSetup ==
    /\ pc = "step1"
    /\ \E rs \in [1 .. (PrivateVecLength - 1) -> ShareSample],
          ds \in [1 .. DummyVecLength -> DummySample],
          salt \in SaltSample :
          LET shares == Split(SecretVal, rs)
              mask == MaskOf(ds)
          IN  /\ splittedSecretVal' = [splittedSecretVal EXCEPT ![idx] = shares]
              /\ splittedSecretMask' = [splittedSecretMask EXCEPT ![idx] = ds]
              /\ secretMask' = [secretMask EXCEPT ![idx] = mask]
              /\ secretSalt' = [secretSalt EXCEPT ![idx] = salt]
              /\ commitment' = [commitment EXCEPT ![idx] = Commit(shares, mask, salt)]
              /\ allSecretVal' = allSecretVal \o shares
              /\ allMask' = allMask \o ds
              /\ IF idx < ClientNum
                 THEN pc' = "step1" /\ idx' = idx + 1
                 ELSE pc' = "shuffleVal" /\ idx' = Len(allSecretVal')
    /\ UNCHANGED <<threshold, allProof, reportedSum, roundVars, tampered, voteVars, fn>>

\* Mutant of ShuffleSecretVal: the clients' share vectors are slices of
\* allSecretVal, so that a swap moves their entries as well.
ShuffleSecretValAliased ==
    /\ pc = "shuffleVal"
    /\ idx >= 2
    /\ \E j \in SwapChoices(idx) : allSecretVal' = Swap(allSecretVal, idx, j)
    /\ splittedSecretVal' =
          [i \in Clients |-> SubSeq(allSecretVal', (i - 1) * PrivateVecLength + 1,
                                    i * PrivateVecLength)]
    /\ IF idx > 2
       THEN pc' = "shuffleVal" /\ idx' = idx - 1
       ELSE pc' = "shuffleMask" /\ idx' = Len(allMask)
    /\ UNCHANGED <<threshold, secretMask, splittedSecretMask, commitment, secretSalt,
                   allMask, allProof, reportedSum, roundVars, tampered, voteVars, fn>>

\* One swap of rand.Shuffle over allSecretVal.
ShuffleSecretVal ==
    /\ pc = "shuffleVal"
    /\ idx >= 2
    /\ \E j \in SwapChoices(idx) : allSecretVal' = Swap(allSecretVal, idx, j)
    /\ IF idx > 2
       THEN pc' = "shuffleVal" /\ idx' = idx - 1
       ELSE pc' = "shuffleMask" /\ idx' = Len(allMask)
    /\ UNCHANGED <<threshold, clientVars, allMask, allProof, reportedSum, roundVars,
                   tampered, voteVars, fn>>

\* One swap of rand.Shuffle over allMask.
ShuffleMask ==
    /\ pc = "shuffleMask"
    /\ idx >= 2
    /\ \E j \in SwapChoices(idx) : allMask' = Swap(allMask, idx, j)
    /\ IF idx > 2
       THEN pc' = "shuffleMask" /\ idx' = idx - 1
       ELSE pc' = "step2" /\ idx' = 1
    /\ UNCHANGED <<threshold, clientVars, allSecretVal, allProof, reportedSum, roundVars,
                   tampered, voteVars, fn>>

\* Step 2: the server draws the challenge.
DrawChallenge ==
    /\ pc = "step2"
    /\ publicRFr' \in ChallengeSample
    /\ pc' = "step3"
    /\ idx' = 1
    /\ UNCHANGED <<prodFromClients, prodFromShuffler, verifyErrors, consistency,
                   tampered, sumVars, voteVars, fn>>

\* Mutant of SumClientProve: the server goes on after the first client.
SumClientProveFirstOnly ==
    /\ pc = "step3"
    /\ allProof' = Append(allProof,
          SumGenProofGroth16(splittedSecretVal[idx], publicRFr, secretMask[idx],
                             commitment[idx], secretSalt[idx], threshold))
    /\ pc' = "proofSize" /\ idx' = 1
    /\ UNCHANGED <<threshold, clientVars, allSecretVal, allMask, reportedSum, roundVars,
                   tampered, voteVars, fn>>

\* Step 3, one client: PublicProd and proof.
SumClientProve ==
    /\ pc = "step3"
    /\ allProof' = Append(allProof,
          SumGenProofGroth16(splittedSecretVal[idx], publicRFr, secretMask[idx],
                             commitment[idx], secretSalt[idx], threshold))
    /\ IF idx < ClientNum
       THEN pc' = "step3" /\ idx' = idx + 1
       ELSE pc' = "proofSize" /\ idx' = 1
    /\ UNCHANGED <<threshold, clientVars, allSecretVal, allMask, reportedSum, roundVars,
                   tampered, voteVars, fn>>

\* allProof[0].proof.WriteTo(&buf): on the nil proof of a failed Prove the
\* call dereferences nil inside the proof library; whether that aborts the
\* process is the library's behaviour.  Then prodFromClients := 1.
SumProofSize ==
    /\ pc = "proofSize"
    /\ \/ pc' = "step4" /\ prodFromClients' = NewElement(1)
       \/ allProof[1].proof.nil /\ pc' = "panic" /\ UNCHANGED prodFromClients
    /\ UNCHANGED <<idx, publicRFr, prodFromShuffler, verifyErrors, consistency,
                   tampered, sumVars, voteVars, fn>>

\* Step 4, one client: verify its proof, multiply its publicProd in.
SumServerVerify ==
    /\ pc = "step4"
    /\ \/ /\ verifyErrors' = IF VerifyOk(allProof[idx].proof, allProof[idx].publicWitness)
                             THEN verifyErrors ELSE verifyErrors \cup {idx}
          /\ prodFromClients' = Mul(prodFromClients, allProof[idx].publicProd)
          /\ IF idx < ClientNum
             THEN pc' = "step4" /\ idx' = idx + 1
             ELSE pc' = "check" /\ idx' = 1
       \/ /\ allProof[idx].proof.nil
          /\ pc' = "panic"
          /\ UNCHANGED <<idx, verifyErrors, prodFromClients>>
    /\ UNCHANGED <<publicRFr, prodFromShuffler, consistency, tampered, sumVars, voteVars, fn>>

\* Mutant of ProdFromShuffler: the dummies enter as factors (dummy + r).
ProdFromShufflerDummyPoly(vals, masks, r) == Mul(PolyEval(vals, r), PolyEval(masks, r))

\* The fingerprint the server recomputes from the shuffler's output.
ProdFromShuffler(vals, masks, r) == MulAll(masks, 1, PolyEval(vals, r))

\* The comparison of the two products.
SameSet(fromShuffler, fromClients) == fromShuffler = fromClients

\* The consistency check.
SumConsistencyCheck ==
    /\ pc = "check"
    /\ prodFromShuffler' = ProdFromShuffler(allSecretVal, allMask, publicRFr)
    /\ consistency' = IF SameSet(prodFromShuffler', prodFromClients)
                      THEN "same" ELSE "NOT the same"
    /\ pc' = "sum"
    /\ UNCHANGED <<idx, publicRFr, prodFromClients, verifyErrors, tampered, sumVars, voteVars, fn>>

\* Mutant of ServerSum: the loop starts at the second share.
ServerSumFromSecond(vals) == AddAll(vals, 2, NewElement(0))

\* sum := 0; for every shuffled share: sum += share
ServerSum(vals) == AddAll(vals, 1, NewElement(0))

\* The aggregate: the field sum of the shuffled shares.
SumAggregate ==
    /\ pc = "sum"
    /\ reportedSum' = ServerSum(allSecretVal)
    /\ pc' = "done"
    /\ UNCHANGED <<idx, roundVars, tampered, threshold, clientVars, allSecretVal, allMask,
                   allProof, voteVars, fn>>

\* ------------------------------------------------------------------------
\* VoteGroth16.

\* Step 1, one client: clients[i].Init().
VoteClientInit ==
    /\ pc = "voteInit"
    /\ \E js \in Draws(CandidateNum),
          ds \in [1 .. DummyVecLength -> DummySample],
          salt \in SaltSample :
          clients' = Append(clients, ClientInit(js, ds, salt))
    /\ IF idx < VoteClientNum
       THEN pc' = "voteInit" /\ idx' = idx + 1
       ELSE pc' = "voteSubmitPairs" /\ idx' = 1
    /\ UNCHANGED <<roundVars, tampered, sumVars, shuffledPairFirst, shuffledPairSecond,
                   allDummies, allAssignment, allSubmission, comparisonVoteCnt,
                   soleWinner, notCorrect, fn>>

RECURSIVE Flatten(_, _)
\* The concatenation of field f of clients i.. in client order.
Flatten(per, i) == IF i > Len(per) THEN <<>> ELSE per[i] \o Flatten(per, i + 1)

\* The clients send their pairs to the shuffler.
VoteSubmitPairs ==
    /\ pc = "voteSubmitPairs"
    /\ shuffledPairFirst' = Flatten([i \in Voters |-> clients[i].PairFirst], 1)
    /\ shuffledPairSecond' = Flatten([i \in Voters |-> clients[i].PairSecond], 1)
    /\ pc' = "voteShufflePairs"
    /\ idx' = Len(shuffledPairFirst')
    /\ UNCHANGED <<roundVars, tampered, sumVars, clients, allDummies, allAssignment,
                   allSubmission, comparisonVoteCnt, soleWinner, notCorrect, fn>>

\* Mutant of VoteShufflePairs: each array is swapped with a j of its own.
VoteShufflePairsSeparately ==
    /\ pc = "voteShufflePairs"
    /\ idx >= 2
    /\ \E j \in SwapChoices(idx) : shuffledPairFirst' = Swap(shuffledPairFirst, idx, j)
    /\ \E j \in SwapChoices(idx) : shuffledPairSecond' = Swap(shuffledPairSecond, idx, j)
    /\ IF idx > 2
       THEN pc' = "voteShufflePairs" /\ idx' = idx - 1
       ELSE pc' = "voteStep2" /\ idx' = 1
    /\ UNCHANGED <<roundVars, tampered, sumVars, clients, allDummies, allAssignment,
                   allSubmission, comparisonVoteCnt, soleWinner, notCorrect, fn>>

\* One swap of rand.Shuffle over the pairs: both arrays, same i and j.
VoteShufflePairs ==
    /\ pc = "voteShufflePairs"
    /\ idx >= 2
    /\ \E j \in SwapChoices(idx) :
          /\ shuffledPairFirst' = Swap(shuffledPairFirst, idx, j)
          /\ shuffledPairSecond' = Swap(shuffledPairSecond, idx, j)
    /\ IF idx > 2
       THEN pc' = "voteShufflePairs" /\ idx' = idx - 1
       ELSE pc' = "voteStep2" /\ idx' = 1
    /\ UNCHANGED <<roundVars, tampered, sumVars, clients, allDummies, allAssignment,
                   allSubmission, comparisonVoteCnt, soleWinner, notCorrect, fn>>

\* Step 2: the server broadcasts publicR.
VoteDrawChallenge ==
    /\ pc = "voteStep2"
    /\ publicRFr' \in ChallengeSample
    /\ pc' = "voteAssign"
    /\ idx' = 1
    /\ UNCHANGED <<prodFromClients, prodFromShuffler, verifyErrors, consistency,
                   tampered, sumVars, voteVars, fn>>

\* Step 3, one client: GenAssignment, which also stores its PublicProd.
VoteGenAssignment ==
    /\ pc = "voteAssign"
    /\ LET a == GenAssignment(clients[idx], publicRFr)
       IN  /\ allAssignment' = Append(allAssignment, a)
           /\ clients' = [clients EXCEPT ![idx].PublicProd = a.PublicProd]
    /\ IF idx < VoteClientNum
       THEN pc' = "voteAssign" /\ idx' = idx + 1
       ELSE pc' = "voteProve" /\ idx' = 1
    /\ UNCHANGED <<roundVars, tampered, sumVars, shuffledPairFirst, shuffledPairSecond,
                   allDummies, allSubmission, comparisonVoteCnt, soleWinner, notCorrect, fn>>

\* One client's submission: a proof only for the first MaxNumOfCheckProof.
VoteSubmission(i, a, c) ==
    IF i <= MaxNumOfCheckProof
    THEN LET g == VoteGenProofGroth16(a)
         IN  [proof |-> g.proof, publicWitness |-> g.publicWitness,
              publicProd |-> c.PublicProd]
    ELSE [proof |-> NilProof, publicWitness |-> NilProof, publicProd |-> c.PublicProd]

VoteClientProve ==
    /\ pc = "voteProve"
    /\ allSubmission' = Append(allSubmission,
                               VoteSubmission(idx, allAssignment[idx], clients[idx]))
    /\ IF idx < VoteClientNum
       THEN pc' = "voteProve" /\ idx' = idx + 1
       ELSE pc' = "voteSubmitDummies" /\ idx' = 1
    /\ UNCHANGED <<roundVars, tampered, sumVars, clients, shuffledPairFirst,
                   shuffledPairSecond, allDummies, allAssignment, comparisonVoteCnt,
                   soleWinner, notCorrect, fn>>

\* The clients send their dummies to the shuffler.
VoteSubmitDummies ==
    /\ pc = "voteSubmitDummies"
    /\ allDummies' = Flatten([i \in Voters |-> clients[i].PrivateY], 1)
    /\ pc' = "voteShuffleDummies"
    /\ idx' = Len(allDummies')
    /\ UNCHANGED <<roundVars, tampered, sumVars, clients, shuffledPairFirst,
                   shuffledPairSecond, allAssignment, allSubmission, comparisonVoteCnt,
                   soleWinner, notCorrect, fn>>

\* One swap of rand.Shuffle over allDummies.
VoteShuffleDummies ==
    /\ pc = "voteShuffleDummies"
    /\ idx >= 2
    /\ \E j \in SwapChoices(idx) : allDummies' = Swap(allDummies, idx, j)
    /\ IF idx > 2
       THEN pc' = "voteShuffleDummies" /\ idx' = idx - 1
       ELSE pc' = "voteVerify" /\ idx' = 1
    /\ UNCHANGED <<roundVars, tampered, sumVars, clients, shuffledPairFirst,
                   shuffledPairSecond, allAssignment, allSubmission, comparisonVoteCnt,
                   soleWinner, notCorrect, fn>>

\* One iteration of the verification loop: only i < MaxNumOfCheckProof is
\* verified.
VoteServerVerify ==
    /\ pc = "voteVerify"
    /\ \/ /\ verifyErrors' =
                IF idx <= MaxNumOfCheckProof
                   /\ ~VerifyOk(allSubmission[idx].proof, allSubmission[idx].publicWitness)
                THEN verifyErrors \cup {idx} ELSE verifyErrors
          /\ IF idx < VoteClientNum
             THEN pc' = "voteVerify" /\ idx' = idx + 1
             ELSE pc' = "voteCheck" /\ idx' = 1
       \/ /\ idx <= MaxNumOfCheckProof
          /\ allSubmission[idx].proof.nil
          /\ pc' = "panic"
          /\ UNCHANGED <<idx, verifyErrors>>
    /\ UNCHANGED <<publicRFr, prodFromClients, prodFromShuffler, consistency, tampered,
                   sumVars, voteVars, fn>>

RECURSIVE ProdOfCheckedSubmissions(_, _, _)
\* Mutant of ProdOfSubmissions: only the clients with a checked proof count.
ProdOfCheckedSubmissions(subs, i, acc) ==
    IF i > Len(subs) \/ i > MaxNumOfCheckProof THEN acc
    ELSE ProdOfCheckedSubmissions(subs, i + 1, Mul(acc, subs[i].publicProd))

RECURSIVE ProdOfSubmissions(_, _, _)
\* prodFromClient: 1 times every allSubmission[i].publicProd
ProdOfSubmissions(subs, i, acc) ==
    IF i > Len(subs) THEN acc
    ELSE ProdOfSubmissions(subs, i + 1, Mul(acc, subs[i].publicProd))

\* The server's tmp = CandidateNum; tmp *= shuffledPairFirst[i];
\* tmp += shuffledPairSecond[i]
PackAtServer(first, second) ==
    LET tmp == NewElement(CandidateNum) IN Add(Mul(tmp, first), second)

\* processedVec of the server, over the shuffled pairs.
ServerProcessedVec(first, second) ==
    [k \in 1 .. Len(first) |-> PackAtServer(first[k], second[k])]

\* The server packs the shuffled pairs, recomputes the fingerprint and
\* compares it with the product of the clients' publicProd.
VoteConsistencyCheck ==
    /\ pc = "voteCheck"
    /\ prodFromShuffler' =
          ProdFromShuffler(ServerProcessedVec(shuffledPairFirst, shuffledPairSecond),
                           allDummies, publicRFr)
    /\ prodFromClients' = ProdOfSubmissions(allSubmission, 1, NewElement(1))
    /\ consistency' = IF SameSet(prodFromShuffler', prodFromClients')
                      THEN "same" ELSE "NOT the same"
    /\ pc' = "voteTally"
    /\ UNCHANGED <<idx, publicRFr, verifyErrors, tampered, sumVars, voteVars, fn>>

\* The tally and the scan for a sole winner.  A shuffled value that is no
\* candidate id indexes comparisonVoteCnt out of range.
VoteTally ==
    /\ pc = "voteTally"
    /\ IF \A k \in 1 .. Len(shuffledPairFirst) :
              shuffledPairFirst[k] \in Candidates /\ shuffledPairSecond[k] \in Candidates
       THEN LET cnt == Tally(shuffledPairFirst, shuffledPairSecond)
                scan == WinnerScan(cnt, 0, -1, FALSE)
            IN  /\ comparisonVoteCnt' = cnt
                /\ soleWinner' = scan.soleWinner
                /\ notCorrect' = scan.warned
                /\ pc' = "done"
       ELSE /\ pc' = "panic"
            /\ UNCHANGED <<comparisonVoteCnt, soleWinner, notCorrect, fn>>
    /\ UNCHANGED <<idx, roundVars, tampered, sumVars, clients, shuffledPairFirst,
                   shuffledPairSecond, allDummies, allAssignment, allSubmission, fn>>

\* ------------------------------------------------------------------------
\* The shuffler is untrusted: what the server reads from it may be its honest
\* output with exactly one value replaced by a different field element.
ReplaceOne(s, k, v) == [s EXCEPT ![k] = v]

Tamper ==
    /\ ~tampered
    /\ tampered' = TRUE
    /\ \E v \in TamperSample :
       \/ /\ pc = "check"
          /\ \/ \E k \in 1 .. Len(allSecretVal) :
                   /\ allSecretVal[k] # v
                   /\ allSecretVal' = ReplaceOne(allSecretVal, k, v)
                   /\ UNCHANGED allMask
             \/ \E k \in 1 .. Len(allMask) :
                   /\ allMask[k] # v
                   /\ allMask' = ReplaceOne(allMask, k, v)
                   /\ UNCHANGED allSecretVal
          /\ UNCHANGED <<threshold, clientVars, allProof, reportedSum, voteVars, fn>>
       \/ /\ pc = "voteCheck"
          /\ \/ \E k \in 1 .. Len(shuffledPairFirst) :
                   /\ shuffledPairFirst[k] # v
                   /\ shuffledPairFirst' = ReplaceOne(shuffledPairFirst, k, v)
                   /\ UNCHANGED <<shuffledPairSecond, allDummies>>
             \/ \E k \in 1 .. Len(shuffledPairSecond) :
                   /\ shuffledPairSecond[k] # v
                   /\ shuffledPairSecond' = ReplaceOne(shuffledPairSecond, k, v)
                   /\ UNCHANGED <<shuffledPairFirst, allDummies>>
             \/ \E k \in 1 .. Len(allDummies) :
                   /\ allDummies[k] # v
                   /\ allDummies' = ReplaceOne(allDummies, k, v)
                   /\ UNCHANGED <<shuffledPairFirst, shuffledPairSecond>>
          /\ UNCHANGED <<sumVars, clients, allAssignment, allSubmission,
                         comparisonVoteCnt, soleWinner, notCorrect, fn>>
    /\ UNCHANGED <<pc, idx, roundVars>>

\* ------------------------------------------------------------------------
\* Single calls of the pure functions, on inputs drawn at the start.

\* Every ranking of n = 1..MaxCandidates candidates.
EncodeInputs ==
    {[op |-> "Encode", args |-> [ranking |-> s], out |-> <<>>, done |-> FALSE] :
        s \in UNION {{t \in [1 .. n -> 0 .. (n - 1)] :
                         \A p, q \in 1 .. n : p # q => t[p] # t[q]} :
                     n \in 1 .. MaxCandidates}}

\* Every vector of CandidateNum asserted ranks, at every sampled challenge.
PermutationInputs ==
    {[op |-> "Permutation", args |-> [sorted |-> v, r |-> r], out |-> <<>>, done |-> FALSE] :
        v \in [1 .. CandidateNum -> RankSample], r \in RSample}

\* Assignments of sumAndCmpCircuit: each private vector with each threshold,
\* the PublicProd and PublicCommitment either those of the private values or
\* other ones.
SumCircuitInputs ==
    {[op |-> "SumCircuit",
      args |-> [PrivateVec |-> v,
                PublicThreshold |-> NewElement(t),
                PrivateMask |-> m,
                PublicR |-> r,
                PublicProd |-> IF prodOk THEN Mul(PolyEval(v, r), m)
                               ELSE Add(Mul(PolyEval(v, r), m), 1),
                PublicCommitment |-> IF comOk THEN Commit(v, m, 7) ELSE Commit(v, m, 8),
                PrivateSalt |-> 7],
      out |-> <<>>, done |-> FALSE] :
        v \in CircuitVecSample, t \in CircuitThresholdSample, m \in CircuitMaskSample,
        r \in ChallengeSample, prodOk \in BOOLEAN, comOk \in BOOLEAN}

\* A client of a vote over n = 0..2 candidates, at every sampled challenge.
ClientFingerprintInputs ==
    {[op |-> "ClientFingerprint", args |-> [ranking |-> s, r |-> r],
      out |-> <<>>, done |-> FALSE] :
        s \in UNION {{t \in [1 .. n -> 0 .. (n - 1)] :
                         \A p, q \in 1 .. n : p # q => t[p] # t[q]} :
                     n \in 0 .. 2},
        r \in RSample}

\* ComputeDummyNum(lambda, n, t) for the sampled parameters.
DummyNumInputs ==
    {[op |-> "ComputeDummyNum", args |-> [lambda |-> l, n |-> n, t |-> t],
      out |-> <<>>, done |-> FALSE] :
        l \in LambdaSample, n \in PartySample, t \in PartySample}

\* The split loop for every share count k = 0..MaxVecLen: the secret and the
\* k - 1 random shares it draws.
SplitCountInputs ==
    {[op |-> "SplitCount", args |-> [secret |-> SecretVal, k |-> k, rs |-> rs],
      out |-> <<>>, done |-> FALSE] :
        k \in 0 .. MaxVecLen,
        rs \in UNION {[1 .. n -> ShareSample] : n \in 0 .. (MaxVecLen - 1)}}

\* Two pairs of candidate ids.
PackInputs ==
    {[op |-> "Pack", args |-> [p |-> p, q |-> q], out |-> <<>>, done |-> FALSE] :
        p \in Candidates \X Candidates, q \in Candidates \X Candidates}

\* What a client that changed its pairs would fill in as PublicProd and
\* PublicCommitment: ComputePolyEval and the commitment over the changed pairs.
Recomputed(a) ==
    LET x == PrivateXOf(a.PairFirstVar, a.PairSecondVar)
    IN  [a EXCEPT !.PublicProd = Mul(PolyEval(x, a.PublicR), a.PrivateMask),
                  !.PublicCommitment = Commit(x, a.PrivateMask, a.PrivateSalt)]

\* The assignments a prover can derive from the honest assignment a: a itself;
\* one pair entry replaced, with PublicProd and PublicCommitment either left
\* or recomputed; another PublicProd; another commitment; any asserted
\* ranking with everything else derived from it.
AssignmentsFrom(a) ==
    LET slots == 1 .. PairNum
        firstSet(k, v) == [a EXCEPT !.PairFirstVar[k] = v]
        secondSet(k, v) == [a EXCEPT !.PairSecondVar[k] = v]
        ranked(v) == [a EXCEPT !.SortedCandidate = v,
                               !.PairFirstVar = PairFirstOf(v),
                               !.PairSecondVar = PairSecondOf(v)]
    IN  {a}
        \cup {firstSet(k, v) : k \in slots, v \in Candidates}
        \cup {Recomputed(firstSet(k, v)) : k \in slots, v \in Candidates}
        \cup {secondSet(k, v) : k \in slots, v \in Candidates}
        \cup {Recomputed(secondSet(k, v)) : k \in slots, v \in Candidates}
        \cup {[a EXCEPT !.PublicProd = Add(@, 1)]}
        \cup {[a EXCEPT !.PublicCommitment = Commit(<<>>, a.PrivateMask, a.PrivateSalt)]}
        \cup {Recomputed(ranked(v)) : v \in [1 .. CandidateNum -> Candidates]}

\* Assignments of VoteCircuit: those of GenAssignment on every initialised
\* client at every sampled challenge, and those derived from them.
VoteCircuitInputs ==
    UNION {{[op |-> "VoteCircuit",
             args |-> [a |-> b, honest |-> (b = GenAssignment(ClientInit(js, ds, salt), r))],
             out |-> <<>>, done |-> FALSE] :
                b \in AssignmentsFrom(GenAssignment(ClientInit(js, ds, salt), r))} :
           js \in Draws(CandidateNum), ds \in [1 .. DummyVecLength -> DummySample],
           salt \in SaltSample, r \in ChallengeSample \cup RSample}

\* The largest count a cell of comparisonVoteCnt is given: one more than
\* the number of clients.
MaxTally == VoteClientNum + 1

\* Every comparisonVoteCnt with cells 0..MaxTally off the diagonal.
TallyInputs ==
    {[op |-> "WinnerScan",
      args |-> [cnt |-> [a \in Candidates |-> [b \in Candidates |->
                            IF a = b THEN 0 ELSE f[<<a, b>>]]]],
      out |-> <<>>, done |-> FALSE] :
        f \in [{ab \in Candidates \X Candidates : ab[1] # ab[2]} -> 0 .. MaxTally]}

FnInputs ==
    EncodeInputs
    \cup
    TallyInputs
    \cup
    VoteCircuitInputs
    \cup
    PackInputs
    \cup
    {i \in SplitCountInputs : Len(i.args.rs) = IF i.args.k = 0 THEN 0 ELSE i.args.k - 1}
    \cup
    DummyNumInputs
    \cup
    ClientFingerprintInputs
    \cup
    SumCircuitInputs
    \cup
    PermutationInputs
    \cup
    {[op |-> "PolyEval",
      args |-> [vec |-> v, perm |-> v, r |-> r, swaps |-> 0],
      out |-> <<>>, done |-> FALSE] :
        v \in UNION {[1 .. n -> ElemSample] : n \in 1 .. MaxVecLen}, r \in RSample}
    \cup
    {[op |-> "Split",
      args |-> [secret |-> sec, rs |-> rs],
      out |-> <<>>, done |-> FALSE] :
        sec \in SecretSample,
        rs \in UNION {[1 .. n -> ElemSample] : n \in 1 .. (MaxVecLen - 1)}}

FnInit ==
    /\ pc = "fn"
    /\ threshold = 0
    /\ fn \in FnInputs
    /\ RoundInit

\* Reorder the vector handed to PolyEval: one transposition.
FnPermute ==
    /\ pc = "fn" /\ fn.op = "PolyEval" /\ ~fn.done
    /\ fn.args.swaps < MaxFnSwaps
    /\ \E i, j \in 1 .. Len(fn.args.perm) :
          /\ i < j
          /\ fn' = [fn EXCEPT !.args.perm = Swap(fn.args.perm, i, j),
                              !.args.swaps = fn.args.swaps + 1]
    /\ UNCHANGED <<pc, idx, roundVars, tampered, sumVars, voteVars>>

\* PolyEval of the vector as drawn and as reordered.
FnPolyEval ==
    /\ pc = "fn" /\ fn.op = "PolyEval" /\ ~fn.done
    /\ fn' = [fn EXCEPT !.out = [orig |-> PolyEval(fn.args.vec, fn.args.r),
                                 permuted |-> PolyEval(fn.args.perm, fn.args.r)],
                        !.done = TRUE]
    /\ UNCHANGED <<pc, idx, roundVars, tampered, sumVars, voteVars>>

\* The split of one secret with the drawn random shares.
FnSplit ==
    /\ pc = "fn" /\ fn.op = "Split" /\ ~fn.done
    /\ fn' = [fn EXCEPT !.out = Split(fn.args.secret, fn.args.rs), !.done = TRUE]
    /\ UNCHANGED <<pc, idx, roundVars, tampered, sumVars, voteVars>>

\* The pair list of one ranking, for as many candidates as it ranks.
FnEncode ==
    /\ pc = "fn" /\ fn.op = "Encode" /\ ~fn.done
    /\ fn' = [fn EXCEPT !.out = PairListOf(Len(fn.args.ranking), fn.args.ranking),
                        !.done = TRUE]
    /\ UNCHANGED <<pc, idx, roundVars, tampered, sumVars, voteVars>>

\* The permutation assertion of VoteCircuit.Define on an asserted ranking.
FnPermutationClause ==
    /\ pc = "fn" /\ fn.op = "Permutation" /\ ~fn.done
    /\ fn' = [fn EXCEPT !.out = VotePermutationClause([SortedCandidate |-> fn.args.sorted,
                                                       PublicR |-> fn.args.r]),
                        !.done = TRUE]
    /\ UNCHANGED <<pc, idx, roundVars, tampered, sumVars, voteVars>>

\* groth16.Prove on one assignment of the sum circuit.
FnSumCircuit ==
    /\ pc = "fn" /\ fn.op = "SumCircuit" /\ ~fn.done
    /\ fn' = [fn EXCEPT !.out = Prove(SumCircuit(fn.args), fn.args), !.done = TRUE]
    /\ UNCHANGED <<pc, idx, roundVars, tampered, sumVars, voteVars>>

\* ClientState.Init's PrivateX and ComputePolyEval for a vote over as many
\* candidates as the ranking has, with mask One.  PolyEval reads vec[0]: on
\* an empty PrivateX the call panics (index out of range).
FnClientFingerprint ==
    /\ pc = "fn" /\ fn.op = "ClientFingerprint" /\ ~fn.done
    /\ LET n == Len(fn.args.ranking)
           pl == PairListOf(n, fn.args.ranking)
           x == [k \in 1 .. Len(pl.first) |-> PackWith(n, pl.first[k], pl.second[k])]
       IN  fn' = [fn EXCEPT !.out = IF Len(x) = 0
                                    THEN [panic |-> TRUE, PrivateX |-> x]
                                    ELSE [panic |-> FALSE, PrivateX |-> x,
                                          PublicProd |-> Mul(PolyEval(x, fn.args.r), One)],
                           !.done = TRUE]
    /\ UNCHANGED <<pc, idx, roundVars, tampered, sumVars, voteVars>>

\* DummyVecLength = ComputeDummyNum(lambda, n, t): the call returns a count.
FnComputeDummyNum ==
    /\ pc = "fn" /\ fn.op = "ComputeDummyNum" /\ ~fn.done
    /\ \E c \in ComputeDummyNum(fn.args.lambda, fn.args.n, fn.args.t) :
          fn' = [fn EXCEPT !.out = [DummyVecLength |-> c], !.done = TRUE]
    /\ UNCHANGED <<pc, idx, roundVars, tampered, sumVars, voteVars>>

\* The split with PrivateVecLength = k: make([]Element, k), then
\* share[0] = secret, which is out of range for k = 0; for k >= 1 the loop
\* over j = 1..k-1 runs and the vector is kept.
FnSplitCount ==
    /\ pc = "fn" /\ fn.op = "SplitCount" /\ ~fn.done
    /\ fn' = [fn EXCEPT !.out = IF fn.args.k = 0
                                THEN [panic |-> TRUE]
                                ELSE [panic |-> FALSE,
                                      shares |-> Split(fn.args.secret, fn.args.rs)],
                        !.done = TRUE]
    /\ UNCHANGED <<pc, idx, roundVars, tampered, sumVars, voteVars>>

\* The two pairs packed by the client, in the circuit and by the server.
FnPack ==
    /\ pc = "fn" /\ fn.op = "Pack" /\ ~fn.done
    /\ LET p == fn.args.p
           q == fn.args.q
       IN  fn' = [fn EXCEPT
                    !.out = [client |-> PrivateXOf(<<p[1], q[1]>>, <<p[2], q[2]>>),
                             circuit |-> VoteProcessedVec([PairFirstVar |-> <<p[1], q[1]>>,
                                                           PairSecondVar |-> <<p[2], q[2]>>]),
                             server |-> ServerProcessedVec(<<p[1], q[1]>>, <<p[2], q[2]>>)],
                    !.done = TRUE]
    /\ UNCHANGED <<pc, idx, roundVars, tampered, sumVars, voteVars>>

\* GenProofGroth16 of the vote on one assignment.
FnVoteCircuit ==
    /\ pc = "fn" /\ fn.op = "VoteCircuit" /\ ~fn.done
    /\ fn' = [fn EXCEPT !.out = VoteGenProofGroth16(fn.args.a), !.done = TRUE]
    /\ UNCHANGED <<pc, idx, roundVars, tampered, sumVars, voteVars>>

\* The scan for a sole winner over one comparisonVoteCnt.
FnWinnerScan ==
    /\ pc = "fn" /\ fn.op = "WinnerScan" /\ ~fn.done
    /\ fn' = [fn EXCEPT !.out = WinnerScan(fn.args.cnt, 0, -1, FALSE), !.done = TRUE]
    /\ UNCHANGED <<pc, idx, roundVars, tampered, sumVars, voteVars>>

\* ------------------------------------------------------------------------
SumNext ==
    \/ SumClientSetup
    \/ ShuffleSecretVal
    \/ ShuffleMask
    \/ DrawChallenge
    \/ SumClientProve
    \/ SumProofSize
    \/ SumServerVerify
    \/ SumConsistencyCheck
    \/ SumAggregate

VoteNext ==
    \/ VoteClientInit
    \/ VoteSubmitPairs
    \/ VoteShufflePairs
    \/ VoteDrawChallenge
    \/ VoteGenAssignment
    \/ VoteClientProve
    \/ VoteSubmitDummies
    \/ VoteShuffleDummies
    \/ VoteServerVerify
    \/ VoteConsistencyCheck
    \/ VoteTally

Next == SumNext \/ VoteNext

\* The round as the program runs it.
Spec == Init /\ [][Next]_vars

\* The round with an untrusted shuffler.
TamperNext == Next \/ Tamper
TamperSpec == Init /\ [][TamperNext]_vars

\* The pure functions on their own.
FnNext == FnPermute \/ FnPolyEval \/ FnSplit \/ FnEncode \/ FnPermutationClause
          \/ FnSumCircuit \/ FnClientFingerprint \/ FnComputeDummyNum
          \/ FnSplitCount \/ FnPack \/ FnVoteCircuit \/ FnWinnerScan
FnSpec == FnInit /\ [][FnNext]_vars

\* ------------------------------------------------------------------------
\* Helpers of the properties.

InSum == pc \in {"step1", "shuffleVal", "shuffleMask", "step2", "step3", "proofSize",
                 "step4", "check", "sum"} \/ (pc \in {"done", "panic"} /\ allSecretVal # <<>>)
InVote == pc \in {"voteInit", "voteSubmitPairs", "voteShufflePairs", "voteStep2",
                  "voteAssign", "voteProve", "voteSubmitDummies", "voteShuffleDummies",
                  "voteVerify", "voteCheck", "voteTally"}
          \/ (pc \in {"done", "panic"} /\ clients # <<>>)

Range(s) == {s[k] : k \in 1 .. Len(s)}
Count(s, v) == Cardinality({k \in 1 .. Len(s) : s[k] = v})
SameMultiset(a, b) ==
    /\ Len(a) = Len(b)
    /\ \A v \in Range(a) \cup Range(b) : Count(a, v) = Count(b, v)

\* What the clients handed to the shuffler, in submission order.
SubmittedShares == Flatten([i \in Clients |-> splittedSecretVal[i]], 1)
SubmittedMasks == Flatten([i \in Clients |-> splittedSecretMask[i]], 1)
SubmittedFirst == Flatten([i \in 1 .. Len(clients) |-> clients[i].PairFirst], 1)
SubmittedSecond == Flatten([i \in 1 .. Len(clients) |-> clients[i].PairSecond], 1)
SubmittedDummies == Flatten([i \in 1 .. Len(clients) |-> clients[i].PrivateY], 1)

RECURSIVE ProdOver(_, _, _)
\* The product of f[i] for i in 1..n.
ProdOver(f, n, i) == IF i > n THEN One ELSE Mul(f[i], ProdOver(f, n, i + 1))

\* The PublicProd of every client at challenge r, multiplied together.
SumClientsProdAt(r) ==
    ProdOver([i \in Clients |-> Mul(PolyEval(splittedSecretVal[i], r), secretMask[i])],
             ClientNum, 1)
VoteClientsProdAt(r) ==
    ProdOver([i \in Voters |-> ComputePolyEval(clients[i], r)], VoteClientNum, 1)

\* Would the server's comparison succeed at challenge r, on what it holds now.
SumCheckPassesAt(r) ==
    SameSet(ProdFromShuffler(allSecretVal, allMask, r), SumClientsProdAt(r))
VoteCheckPassesAt(r) ==
    SameSet(ProdFromShuffler(PrivateXOf(shuffledPairFirst, shuffledPairSecond),
                             allDummies, r),
            VoteClientsProdAt(r))

\* ------------------------------------------------------------------------
\* C1: when the shuffler delivers a permutation of what the clients submitted,
\* the consistency check passes: the fingerprint recomputed from the shuffled
\* values, times the shuffled dummies, equals the product of all clients'
\* PublicProd at the round's challenge.
C1_HonestCheckPasses ==
    consistency # "pending" =>
        /\ consistency = "same"
        /\ prodFromShuffler = prodFromClients
        /\ InSum => prodFromClients = SumClientsProdAt(publicRFr)
        /\ InVote => prodFromClients = VoteClientsProdAt(publicRFr)

\* C1 witness: a finished sum round whose shares arrived reordered, with a
\* non-zero fingerprint.
C1_Witness ==
    /\ pc = "done" /\ InSum
    /\ consistency = "same"
    /\ allSecretVal # SubmittedShares
    /\ prodFromShuffler # 0

\* C2 (as claimed): after exactly one value of the shuffler's output was
\* replaced by a different field element, the consistency check passes for at
\* most (total sequence length) challenges r.
C2_TamperDetected ==
    tampered =>
        /\ InSum =>
              Cardinality({r \in Field : SumCheckPassesAt(r)})
                  <= Len(allSecretVal) + Len(allMask)
        /\ InVote =>
              Cardinality({r \in Field : VoteCheckPassesAt(r)})
                  <= Len(shuffledPairFirst) + Len(allDummies)

\* C3: the shuffle keeps the multiset: at every point of the shuffle and after
\* it the shuffler's sequences hold exactly the values the clients submitted,
\* as many times, and are as long.
C3_ShufflePreservesMultiset ==
    /\ InSum =>
          /\ SameMultiset(allSecretVal, SubmittedShares)
          /\ SameMultiset(allMask, SubmittedMasks)
    /\ (InVote /\ pc \notin {"voteInit", "voteSubmitPairs"}) =>
          /\ SameMultiset(shuffledPairFirst, SubmittedFirst)
          /\ SameMultiset(shuffledPairSecond, SubmittedSecond)
          /\ Len(shuffledPairFirst) = VoteClientNum * PairNum
    /\ (InVote /\ pc \in {"voteShuffleDummies", "voteVerify", "voteCheck", "voteTally", "done"}) =>
          SameMultiset(allDummies, SubmittedDummies)

\* C3 witness: the shuffle is over and did reorder shares and dummies.
C3_Witness ==
    /\ pc = "step2"
    /\ allSecretVal # SubmittedShares
    /\ allMask # SubmittedMasks

\* C4: PolyEval does not depend on the order of the sequence: evaluated on a
\* non-empty sequence and on any reordering of it, at the same r, it gives the
\* same field element.
C4_PolyEvalOrderIndependent ==
    (fn.op = "PolyEval" /\ fn.done) => fn.out.orig = fn.out.permuted

\* C4 witness: an evaluation of a genuinely reordered sequence with a
\* non-zero result.
C4_Witness ==
    /\ fn.op = "PolyEval" /\ fn.done
    /\ fn.args.perm # fn.args.vec
    /\ Len(fn.args.vec) = MaxVecLen
    /\ fn.out.orig # 0

\* C5: the share vector of the split sums to the secret in the field and has
\* one share more than the random shares drawn (k >= 2 shares).
C5_SplitSumsToSecret ==
    (fn.op = "Split" /\ fn.done) =>
        /\ Len(fn.out) = Len(fn.args.rs) + 1
        /\ AddAll(fn.out, 2, fn.out[1]) = NewElement(fn.args.secret)
        /\ \A j \in 1 .. Len(fn.args.rs) : fn.out[j + 1] = fn.args.rs[j]

\* C5 witness: a split of 999 into three shares, the random ones non-zero.
C5_Witness ==
    /\ fn.op = "Split" /\ fn.done
    /\ fn.args.secret = SecretVal
    /\ Len(fn.out) >= 3
    /\ \A j \in 1 .. Len(fn.args.rs) : fn.args.rs[j] # 0

\* C6: the sum the server reports is the field sum of the clients' secrets
\* (three clients holding 999: 2997), whatever the shuffle and the random
\* shares and dummies were, and that round's consistency check succeeded.
C6_AggregateIsSumOfSecrets ==
    reportedSum # -1 =>
        /\ reportedSum = NewElement(ClientNum * SecretVal)
        /\ (ClientNum = 3 /\ SecretVal = 999) => reportedSum = 2997
        /\ consistency = "same"

\* C6 witness: 2997 reported after a shuffle that reordered the shares.
C6_Witness ==
    /\ reportedSum = 2997
    /\ consistency = "same"
    /\ allSecretVal # SubmittedShares

\* C7 (as claimed): with threshold 2996 proof generation fails for every
\* client.
C7_Threshold2996Unsatisfiable ==
    \A i \in 1 .. Len(allProof) : threshold = 2996 => allProof[i].proof.nil

\* C7 (amended): each client's threshold clause compares its own secret 999
\* with the threshold: proof generation fails exactly when the threshold is
\* below 999 (it succeeds for 2996), and the reported sum is the sum of the
\* secrets either way.
C7_ThresholdClausePerClient ==
    /\ \A i \in 1 .. Len(allProof) : allProof[i].proof.nil <=> (threshold < SecretVal)
    /\ reportedSum # -1 => reportedSum = NewElement(ClientNum * SecretVal)

\* C7 witness: threshold 2996, every client proved, sum reported.
C7_Witness ==
    /\ threshold = 2996
    /\ Len(allProof) = ClientNum
    /\ \A i \in 1 .. ClientNum : ~allProof[i].proof.nil
    /\ reportedSum = NewElement(ClientNum * SecretVal)

\* C7 second witness state, kept with the amended claim: threshold 998, no
\* client could prove, sum still reported.
C7_WitnessBelow ==
    /\ threshold = 998
    /\ Len(allProof) = ClientNum
    /\ \A i \in 1 .. ClientNum : allProof[i].proof.nil
    /\ reportedSum = NewElement(ClientNum * SecretVal)

C9_NoAggregateAfterFailedCheck ==
    consistency = "NOT the same" => (reportedSum = -1 /\ soleWinner = -2)

\* C10 (as claimed): a round in which a client's proof failed verification
\* does not end with the aggregate reported like a round whose proofs verify.
C10_VerifyFailureNotIgnored ==
    verifyErrors # {} => (reportedSum = -1 /\ soleWinner = -2)

\* ------------------------------------------------------------------------
\* The tally and the sole winner.

\* Candidate i strictly beats every other candidate in cnt.
BeatsEveryOther(cnt, i) == \A j \in Candidates \ {i} : cnt[i][j] > cnt[j][i]
\* Every pair of cells of row i adds up to the number of clients.
RowComplete(cnt, i) ==
    \A j \in Candidates \ {i} : cnt[i][j] + cnt[j][i] = VoteClientNum
\* Candidate a is ranked above candidate b in the ranking sorted.
Above(sorted, a, b) ==
    \E p, q \in 1 .. Len(sorted) : p < q /\ sorted[p] = a /\ sorted[q] = b
Rankings == {clients[i].SortedCandidate : i \in 1 .. Len(clients)}
Tallied == InVote /\ comparisonVoteCnt # <<>>

\* C11 (as claimed): for every tally built from the shuffled pairs, tallies of
\* a tampered shuffle included, candidate i is declared the sole winner if and
\* only if for every j # i both tally[i][j] > tally[j][i] and
\* tally[i][j] + tally[j][i] = n.
C11_SoleWinnerIff ==
    Tallied =>
        \A i \in Candidates :
            (soleWinner = i) <=>
                (BeatsEveryOther(comparisonVoteCnt, i) /\ RowComplete(comparisonVoteCnt, i))

\* C12: when no candidate strictly beats every other one the round ends
\* normally with "no sole winner" (soleWinner = -1); the rankings [0,1,2] and
\* [1,0,2] of two clients over three candidates give no sole winner.
C12_NoSoleWinnerIsNormal ==
    Tallied =>
        /\ (~\E i \in Candidates : BeatsEveryOther(comparisonVoteCnt, i)) =>
              (soleWinner = -1 /\ pc = "done")
        /\ (CandidateNum = 3 /\ VoteClientNum = 2
              /\ Rankings = {<<0, 1, 2>>, <<1, 0, 2>>}) =>
              (soleWinner = -1 /\ pc = "done"
                 /\ comparisonVoteCnt[0][1] = 1 /\ comparisonVoteCnt[1][0] = 1)

\* C12 witness: the round of the rankings [0,1,2] and [1,0,2] has ended with
\* no sole winner.
C12_Witness ==
    /\ pc = "done" /\ InVote
    /\ clients[1].SortedCandidate = <<0, 1, 2>>
    /\ clients[2].SortedCandidate = <<1, 0, 2>>
    /\ soleWinner = -1

\* C13: cell (a, b) of the tally is the number of clients that rank a above
\* b; when all clients hold the same ranking its first candidate is the sole
\* winner; the pairs of the one ranking [2,0,1] tally to [2][0] = [2][1] =
\* [0][1] = 1 and the scan of that tally names candidate 2.
C13_TallyCountsRankings ==
    /\ Tallied =>
          /\ \A a, b \in Candidates :
                comparisonVoteCnt[a][b] =
                    Cardinality({i \in Voters : Above(clients[i].SortedCandidate, a, b)})
          /\ Cardinality(Rankings) = 1 => soleWinner = clients[1].SortedCandidate[1]
    /\ CandidateNum = 3 =>
          LET cnt == Tally(PairFirstOf(<<2, 0, 1>>), PairSecondOf(<<2, 0, 1>>))
          IN  /\ cnt[2][0] = 1 /\ cnt[2][1] = 1 /\ cnt[0][1] = 1
              /\ cnt[0][2] = 0 /\ cnt[1][2] = 0 /\ cnt[1][0] = 0
              /\ WinnerScan(cnt, 0, -1, FALSE).soleWinner = 2

\* C13 witness: both clients rank [2,0,1]; candidate 2 is the sole winner with
\* two votes over each other candidate.
C13_Witness ==
    /\ pc = "done" /\ InVote
    /\ Rankings = {<<2, 0, 1>>}
    /\ comparisonVoteCnt[2][0] = 2 /\ comparisonVoteCnt[0][1] = 2
    /\ soleWinner = 2

\* ------------------------------------------------------------------------
\* The pair list of a ranking.

Encoded == fn.op = "Encode" /\ fn.done
\* The number of pairs in the rows before row i (0-based) of n candidates.
RowOffset(n, i) == i * n - (i * (i + 1)) \div 2
\* (a, b) is an entry of the pair list.
Listed(first, second, a, b) ==
    \E k \in 1 .. Len(first) : first[k] = a /\ second[k] = b

\* C14: the pair list of a ranking of C candidates has C(C-1)/2 entries in
\* row order: for each position i from 0 and each j from 0 to C-i-2 the next
\* entry is (ranking[i], ranking[i+j+1]); the ranking [1,0,2,3] gives
\* (1,0),(1,2),(1,3),(0,2),(0,3),(2,3); and for the round's C the list
\* satisfies the pair assertions of the circuit.
C14_PairListRowOrder ==
    Encoded =>
        LET ranking == fn.args.ranking
            n == Len(ranking)
        IN  /\ Len(fn.out.first) = (n * (n - 1)) \div 2
            /\ Len(fn.out.second) = (n * (n - 1)) \div 2
            /\ \A i \in 0 .. (n - 1) : \A j \in 0 .. (n - i - 2) :
                  /\ fn.out.first[RowOffset(n, i) + j + 1] = ranking[i + 1]
                  /\ fn.out.second[RowOffset(n, i) + j + 1] = ranking[i + j + 2]
            /\ ranking = <<1, 0, 2, 3>> =>
                  /\ fn.out.first = <<1, 1, 1, 0, 0, 2>>
                  /\ fn.out.second = <<0, 2, 3, 2, 3, 3>>
            /\ n = CandidateNum =>
                  VotePairClause([SortedCandidate |-> ranking,
                                  PairFirstVar |-> fn.out.first,
                                  PairSecondVar |-> fn.out.second])

\* C14 witness: the ranking [1,0,2,3] has been encoded into six pairs.
C14_Witness ==
    /\ Encoded
    /\ fn.args.ranking = <<1, 0, 2, 3>>
    /\ Len(fn.out.first) = 6
    /\ fn.out.first[4] = 0 /\ fn.out.second[4] = 2

\* C15: round trip: a precedes b in the ranking iff (a, b) is in its pair
\* list; placing every candidate after as many candidates as precede it in
\* the list gives back the ranking; and every unordered pair of candidates is
\* in the list exactly once.
C15_PairListRoundTrip ==
    Encoded =>
        LET ranking == fn.args.ranking
            n == Len(ranking)
            ids == 0 .. (n - 1)
            preceding(a) == Cardinality({b \in ids : Listed(fn.out.first, fn.out.second, b, a)})
        IN  /\ \A a, b \in ids :
                  Listed(fn.out.first, fn.out.second, a, b) <=> Above(ranking, a, b)
            /\ \A p \in 1 .. n : {a \in ids : preceding(a) = p - 1} = {ranking[p]}
            /\ \A a, b \in ids : a < b =>
                  Cardinality({k \in 1 .. Len(fn.out.first) :
                                  {fn.out.first[k], fn.out.second[k]} = {a, b}}) = 1

\* C15 witness: a ranking of four candidates that starts with the last id has
\* been encoded.
C15_Witness ==
    /\ Encoded
    /\ Len(fn.args.ranking) = 4
    /\ fn.args.ranking[1] = 3 /\ fn.args.ranking[4] = 0
    /\ Listed(fn.out.first, fn.out.second, 3, 0)

\* ------------------------------------------------------------------------
\* The permutation clause of the vote circuit.

PermutationChecked == fn.op = "Permutation" /\ fn.done
\* The vector holds every candidate id exactly once.
IsPermutation(sorted) ==
    /\ Len(sorted) = CandidateNum
    /\ \A c \in Candidates : Count(sorted, c) = 1
\* The challenges at which the clause accepts the vector.
AcceptingChallenges(sorted) ==
    {r \in Field : VotePermutationClause([SortedCandidate |-> sorted, PublicR |-> r])}

\* C16 (as claimed): at every challenge r the permutation clause rejects a
\* SortedCandidate vector that is not a permutation of 0..C-1.
C16_NonPermutationRejected ==
    (PermutationChecked /\ ~IsPermutation(fn.args.sorted)) => fn.out = FALSE

\* C16 (amended): a permutation of 0..C-1 satisfies the permutation clause at
\* every challenge; a vector that is not a permutation satisfies it at no
\* more than C challenges of the field and is rejected at every other one.
C16_NonPermutationRejectedButFewR ==
    PermutationChecked =>
        /\ IsPermutation(fn.args.sorted) => fn.out = TRUE
        /\ ~IsPermutation(fn.args.sorted) =>
              /\ Cardinality(AcceptingChallenges(fn.args.sorted)) <= CandidateNum
              /\ fn.out = (fn.args.r \in AcceptingChallenges(fn.args.sorted))

\* C16 witness: the vector [0,0,5] is accepted at the challenge 1 and at no
\* other sampled challenge but those that make the canonical product zero.
C16_Witness ==
    /\ PermutationChecked
    /\ fn.args.sorted = <<0, 0, 5>>
    /\ fn.args.r = 2
    /\ fn.out = FALSE
    /\ 1 \in AcceptingChallenges(fn.args.sorted)

\* ------------------------------------------------------------------------
\* The sum circuit.

SumCircuitProved == fn.op = "SumCircuit" /\ fn.done
RECURSIVE FieldSumOf(_)
\* The sum of a sequence in the field.
FieldSumOf(s) == IF s = <<>> THEN 0 ELSE (Head(s) + FieldSumOf(Tail(s))) % FieldModulus
RECURSIVE FingerprintOf(_, _)
\* The product of (v + r) over a sequence, in the field.
FingerprintOf(s, r) ==
    IF s = <<>> THEN 1 ELSE ((Head(s) + r) * FingerprintOf(Tail(s), r)) % FieldModulus

OtherDigests(values, mask, salt) ==
    {[mimc |-> values \o <<salt, mask>>],
     [mimc |-> <<mask, salt>> \o values],
     [mimc |-> values \o <<mask>>],
     [mimc |-> values \o <<mask, Add(salt, 1)>>]}
        \ {[mimc |-> values \o <<mask, salt>>]}

\* C18: the digest a client computes natively over (values in order, mask,
\* salt) is the digest the circuit recomputes over its private inputs, so the
\* commitment clause holds for every honest client, of the sum round and of
\* the vote round; with any other public digest the clause fails.
C18_CommitmentNativeEqualsCircuit ==
    /\ InSum =>
          \A i \in Clients : splittedSecretVal[i] # <<>> =>
              LET a == SumAssignment(splittedSecretVal[i], NewElement(0), secretMask[i],
                                     commitment[i], secretSalt[i], threshold)
              IN  /\ commitment[i] =
                        [mimc |-> splittedSecretVal[i] \o <<secretMask[i], secretSalt[i]>>]
                  /\ SumCommitClause(a)
                  /\ \A h \in OtherDigests(splittedSecretVal[i], secretMask[i], secretSalt[i]) :
                        ~SumCommitClause([a EXCEPT !.PublicCommitment = h])
    /\ InVote =>
          \A i \in 1 .. Len(clients) :
              LET c == clients[i]
                  a == GenAssignment(c, NewElement(0))
              IN  /\ c.PublicCom = [mimc |-> c.PrivateX \o <<c.PrivateMask, c.PrivateSalt>>]
                  /\ VoteCommitClause(a)
                  /\ \A h \in OtherDigests(c.PrivateX, c.PrivateMask, c.PrivateSalt) :
                        ~VoteCommitClause([a EXCEPT !.PublicCommitment = h])

\* C18 witness: a sum round in which every client proved, with a non-zero
\* mask under the first commitment; its digest is over shares, mask, salt.
C18_Witness ==
    /\ InSum /\ pc = "done"
    /\ \A i \in Clients : ~allProof[i].proof.nil
    /\ secretMask[1] # 0
    /\ Len(commitment[1].mimc) = PrivateVecLength + 2
    /\ allProof[1].publicWitness.PublicCommitment = commitment[1]

\* ------------------------------------------------------------------------
\* The sample of checked proofs.

\* The clients whose submission carries a proof.
ProvingClients == {i \in 1 .. Len(allSubmission) : ~allSubmission[i].proof.nil}

\* C19: in the vote round a proof is generated, and verified, only for the
\* first MaxNumOfCheckProof <= n clients; every client, proved or not,
\* submits its PublicProd at the round's challenge, and the product the
\* consistency check compares is over all n of them.
C19_SampledProofsAllFingerprints ==
    InVote =>
        /\ MaxNumOfCheckProof <= VoteClientNum
        /\ ProvingClients \subseteq 1 .. MaxNumOfCheckProof
        /\ Cardinality(ProvingClients) <= MaxNumOfCheckProof
        /\ \A i \in 1 .. Len(allSubmission) :
              /\ i > MaxNumOfCheckProof =>
                    (allSubmission[i].proof = NilProof
                       /\ allSubmission[i].publicWitness = NilProof)
              /\ allSubmission[i].publicProd = ComputePolyEval(clients[i], publicRFr)
        /\ verifyErrors \subseteq 1 .. MaxNumOfCheckProof
        /\ pc # "panic"
        /\ prodFromClients # -1 =>
              prodFromClients =
                  ProdOver([i \in Voters |-> ComputePolyEval(clients[i], publicRFr)],
                           VoteClientNum, 1)

\* C19 witness: a finished vote round in which the last client sent no proof
\* and its PublicProd, neither 0 nor 1, is a factor of the compared product.
C19_Witness ==
    /\ InVote /\ pc = "done"
    /\ ProvingClients = 1 .. MaxNumOfCheckProof
    /\ allSubmission[VoteClientNum].proof.nil
    /\ allSubmission[VoteClientNum].publicProd \notin {0, 1}
    /\ prodFromClients # 0
    /\ prodFromClients = Mul(allSubmission[1].publicProd, allSubmission[VoteClientNum].publicProd)
    /\ consistency = "same"

\* ------------------------------------------------------------------------
\* Unlinkability of the shuffled output.

\* The ways of handing the contributions of n clients to other clients.
Reassignments(n) == {f \in [1 .. n -> 1 .. n] : \A p, q \in 1 .. n : p # q => f[p] # f[q]}
\* The shuffler's input when client i holds what client f[i] holds now.
Reassigned(per, f) == Flatten([i \in 1 .. Len(per) |-> per[f[i]]], 1)
\* The shuffled pairs as one sequence of pairs.
Zip(first, second) == [k \in 1 .. Len(first) |-> <<first[k], second[k]>>]
\* The shuffler holds every submitted share / pair and has not swapped yet.
SumShuffleStarts == pc = "shuffleVal" /\ idx = Len(allSecretVal)
VoteShuffleStarts == pc = "voteShufflePairs" /\ idx = Len(shuffledPairFirst)
\* The shuffle of the shares / of the pairs has just ended.
SumShuffleEnded == pc = "shuffleMask" /\ idx = Len(allMask)
VoteShuffleEnded == pc = "voteStep2"

\* C20: the set of sequences the shuffler may deliver is the same whichever
\* client holds which contribution: for the shares and the dummies of the sum
\* round and for the pairs and the dummies of the vote round, every
\* reassignment of the contributions among the clients gives the same set of
\* possible shuffled sequences, and the delivered sequence is in that set.
C20_ShuffledOutputUnlinkable ==
    /\ SumShuffleStarts =>
          \A f \in Reassignments(ClientNum) :
              /\ ShuffleOutcomes(Reassigned(splittedSecretVal, f))
                    = ShuffleOutcomes(allSecretVal)
              /\ ShuffleOutcomes(Reassigned(splittedSecretMask, f))
                    = ShuffleOutcomes(allMask)
    /\ SumShuffleEnded => allSecretVal \in ShuffleOutcomes(SubmittedShares)
    /\ VoteShuffleStarts =>
          \A f \in Reassignments(VoteClientNum) :
              /\ ShuffleOutcomes(Reassigned([i \in Voters |->
                        Zip(clients[i].PairFirst, clients[i].PairSecond)], f))
                    = ShuffleOutcomes(Zip(shuffledPairFirst, shuffledPairSecond))
              /\ ShuffleOutcomes(Reassigned([i \in Voters |-> clients[i].PrivateY], f))
                    = ShuffleOutcomes(SubmittedDummies)
    /\ VoteShuffleEnded =>
          Zip(shuffledPairFirst, shuffledPairSecond)
              \in ShuffleOutcomes(Zip(SubmittedFirst, SubmittedSecond))

\* C20 witness: clients 1 and 2 hold different shares, the shuffle delivered
\* a reordered sequence, and that sequence is a possible delivery of the round
\* in which the two clients hold each other's shares.
C20_Witness ==
    /\ SumShuffleEnded
    /\ splittedSecretVal[1] # splittedSecretVal[2]
    /\ allSecretVal # SubmittedShares
    /\ allSecretVal \in
          ShuffleOutcomes(Reassigned(splittedSecretVal,
                                     [i \in Clients |-> IF i = 1 THEN 2
                                                        ELSE IF i = 2 THEN 1 ELSE i]))

\* ------------------------------------------------------------------------
\* The order of the steps of a round.

\* Every client of the round has submitted its PublicProd (and its proof).
AllSubmitted ==
    /\ InSum => Len(allProof) = ClientNum
    /\ InVote => (Len(allAssignment) = VoteClientNum /\ Len(allSubmission) = VoteClientNum)
\* The server has begun to read, verify or compare the submissions.
VerificationStarted ==
    \/ pc \in {"proofSize", "step4", "check", "sum", "voteVerify", "voteCheck", "voteTally"}
    \/ prodFromClients # -1 \/ prodFromShuffler # -1
    \/ consistency # "pending" \/ verifyErrors # {}
\* The shuffler holds the contribution of every client.
BatchComplete ==
    /\ pc \in {"shuffleVal", "shuffleMask"} =>
          /\ \A i \in Clients : Len(splittedSecretVal[i]) = PrivateVecLength
          /\ Len(allSecretVal) = ClientNum * PrivateVecLength
          /\ Len(allMask) = ClientNum * DummyVecLength
    /\ pc = "voteShufflePairs" =>
          /\ Len(clients) = VoteClientNum
          /\ Len(shuffledPairFirst) = VoteClientNum * PairNum
          /\ Len(shuffledPairSecond) = VoteClientNum * PairNum
    /\ pc = "voteShuffleDummies" => Len(allDummies) = VoteClientNum * DummyVecLength
\* One step, as far as the shuffles go: a shuffle is entered only from the
\* submission of the last client, walks the positions downwards, and a
\* shuffled sequence changes in no other phase.
ShuffleOnceStep ==
    /\ (pc # "shuffleVal" /\ pc' = "shuffleVal") => (pc = "step1" /\ idx = ClientNum)
    /\ (pc # "shuffleMask" /\ pc' = "shuffleMask") => (pc = "shuffleVal" /\ idx = 2)
    /\ (pc # "voteShufflePairs" /\ pc' = "voteShufflePairs") => pc = "voteSubmitPairs"
    /\ (pc # "voteShuffleDummies" /\ pc' = "voteShuffleDummies") => pc = "voteSubmitDummies"
    /\ (pc' = pc /\ pc \in {"shuffleVal", "shuffleMask", "voteShufflePairs",
                            "voteShuffleDummies"}) => idx' = idx - 1
    /\ allSecretVal' # allSecretVal => pc \in {"step1", "shuffleVal"}
    /\ allMask' # allMask => pc \in {"step1", "shuffleMask"}
    /\ shuffledPairFirst' # shuffledPairFirst => pc \in {"voteSubmitPairs", "voteShufflePairs"}
    /\ allDummies' # allDummies => pc \in {"voteSubmitDummies", "voteShuffleDummies"}

\* C21: the steps of a round are in strict order: the server reads, verifies
\* or compares nothing before every client has submitted its PublicProd (and
\* proof), no PublicProd exists before the challenge; and each sequence is
\* shuffled in one pass, entered once, over the complete batch of all
\* clients.
C21_StepsInStrictOrder ==
    /\ [](VerificationStarted => AllSubmitted)
    /\ []((allProof # <<>> \/ allAssignment # <<>>) => publicRFr # -1)
    /\ []BatchComplete
    /\ [][ShuffleOnceStep]_vars

\* C21 witness: a finished vote round: both clients submitted, the dummies
\* arrived reordered, the check was made.
C21_Witness ==
    /\ InVote /\ pc = "done"
    /\ AllSubmitted
    /\ allDummies # SubmittedDummies
    /\ consistency = "same"

\* C22 (as claimed): a client for which no proof could be produced is left
\* out of proof verification and the round completes: the round does not
\* abort and no verification is attempted on, or reported for, that client.
C22_ProofFailureOnlyExcludesClient ==
    \A i \in 1 .. Len(allProof) :
        allProof[i].proof.nil => (pc # "panic" /\ i \notin verifyErrors)

\* ------------------------------------------------------------------------
\* The fingerprint of an empty sequence.

\* C23 (as claimed): the fingerprint of an empty sequence is 1 at every
\* challenge: a client of a vote over C <= 1 candidates, whose pair list is
\* empty, computes the PublicProd 1 (times its mask).
C23_EmptyFingerprintIsOne ==
    (fn.op = "ClientFingerprint" /\ fn.done /\ Len(fn.args.ranking) <= 1) =>
        /\ fn.out.PrivateX = <<>>
        /\ ~fn.out.panic
        /\ fn.out.PublicProd = 1

\* ------------------------------------------------------------------------
\* The number of dummies.

\* C24 (as claimed): for n <= t ComputeDummyNum returns no ordinary finite
\* count for the round to use as DummyVecLength.
C24_DummyNumFailsWhenNLeT ==
    (fn.op = "ComputeDummyNum" /\ fn.done /\ fn.args.n <= fn.args.t) =>
        fn.out.DummyVecLength \notin Nat

\* ------------------------------------------------------------------------
\* The share count of the split.

\* C25 (as claimed): the split fails exactly when the share count k is below
\* 2: with k < 2 no share vector is produced, with k >= 2 one of k shares is.
C25_SplitFailsIffKBelow2 ==
    (fn.op = "SplitCount" /\ fn.done) =>
        /\ fn.out.panic <=> (fn.args.k < 2)
        /\ fn.args.k >= 2 => Len(fn.out.shares) = fn.args.k

\* ------------------------------------------------------------------------
\* The encoding of a pair.

Packed == fn.op = "Pack" /\ fn.done

\* C26: for candidate ids below C, two different (winner, loser) pairs are
\* packed to different values, the packed value is winner * C + loser, and
\* the client, the circuit and the server pack a pair to the same value.
C26_PairEncodingInjective ==
    Packed =>
        /\ fn.args.p # fn.args.q => fn.out.client[1] # fn.out.client[2]
        /\ fn.out.client[1] = fn.args.p[1] * CandidateNum + fn.args.p[2]
        /\ fn.out.circuit = fn.out.client
        /\ fn.out.server = fn.out.client

\* C26 witness: the pairs (0, C-1) and (1, 0), packed to neighbouring values.
C26_Witness ==
    /\ Packed
    /\ fn.args.p = <<0, CandidateNum - 1>>
    /\ fn.args.q = <<1, 0>>
    /\ fn.out.circuit = <<CandidateNum - 1, CandidateNum>>

\* ------------------------------------------------------------------------
\* The vote circuit.

VoteCircuitProved == fn.op = "VoteCircuit" /\ fn.done

\* (a) the fingerprints of 0..C-1 and of SortedCandidate agree at PublicR
PermutationHolds(a) ==
    FingerprintOf([i \in 1 .. CandidateNum |-> i - 1], a.PublicR)
        = FingerprintOf(a.SortedCandidate, a.PublicR)
\* (b) the entry of positions i < j is (SortedCandidate[i], SortedCandidate[j])
PairsHold(a) ==
    \A i, j \in Candidates :
        i < j => LET k == RowOffset(CandidateNum, i) + (j - i)
                 IN  /\ a.PairFirstVar[k] = a.SortedCandidate[i + 1]
                     /\ a.PairSecondVar[k] = a.SortedCandidate[j + 1]
\* first * C + second of every entry
PackedPairs(a) ==
    [k \in 1 .. Len(a.PairFirstVar) |->
        (a.PairFirstVar[k] * CandidateNum + a.PairSecondVar[k]) % FieldModulus]
\* (c) fingerprint of the packed pairs times the mask is PublicProd
ProdHolds(a) ==
    (FingerprintOf(PackedPairs(a), a.PublicR) * a.PrivateMask) % FieldModulus = a.PublicProd
\* (d) the hash of packed pairs, mask, salt is PublicCommitment
CommitmentHolds(a) ==
    a.PublicCommitment = [mimc |-> PackedPairs(a) \o <<a.PrivateMask, a.PrivateSalt>>]

\* C27: proving on an assignment of the vote circuit succeeds if and only if
\* the four clauses hold (fingerprint equality of SortedCandidate with 0..C-1,
\* every pair entry derived from SortedCandidate, PublicProd, the commitment);
\* the assignment GenAssignment makes from an initialised client succeeds at
\* every challenge; an assignment with a pair entry that differs from its
\* derivation fails.
C27_VoteCircuitIffFourClauses ==
    VoteCircuitProved =>
        LET a == fn.args.a
        IN  /\ ~fn.out.proof.nil <=>
                  (PermutationHolds(a) /\ PairsHold(a) /\ ProdHolds(a) /\ CommitmentHolds(a))
            /\ fn.args.honest => ~fn.out.proof.nil
            /\ ~PairsHold(a) => fn.out.proof.nil

\* C27 witness: the ranking 0,1,2 with the first entry's winner replaced and
\* PublicProd and the commitment recomputed: only clause (b) fails, no proof.
C27_Witness ==
    /\ VoteCircuitProved
    /\ fn.args.a.SortedCandidate = <<0, 1, 2>>
    /\ fn.args.a.PairFirstVar = <<2, 0, 1>>
    /\ fn.args.a.PairSecondVar = <<1, 2, 2>>
    /\ PermutationHolds(fn.args.a) /\ ProdHolds(fn.args.a) /\ CommitmentHolds(fn.args.a)
    /\ fn.out.proof.nil

\* ------------------------------------------------------------------------
\* Uniqueness of the sole winner.

WinnerScanned == fn.op = "WinnerScan" /\ fn.done
\* The candidates that strictly beat every other candidate in cnt.
StrictWinners(cnt) == {i \in Candidates : BeatsEveryOther(cnt, i)}

\* C28: in every tally matrix at most one candidate strictly beats every
\* other candidate; the scan reports that candidate when there is one, and
\* no winner (-1) when there is none.
C28_AtMostOneSoleWinner ==
    WinnerScanned =>
        /\ Cardinality(StrictWinners(fn.args.cnt)) <= 1
        /\ \A i \in StrictWinners(fn.args.cnt) : fn.out.soleWinner = i
        /\ StrictWinners(fn.args.cnt) = {} => fn.out.soleWinner = -1

\* C28 witness: candidate 0 beats both others, candidate 2 beats candidate 1;
\* the rows scanned after row 0 do not replace the winner.
C28_Witness ==
    /\ WinnerScanned
    /\ fn.args.cnt[0][1] = 2 /\ fn.args.cnt[1][0] = 0
    /\ fn.args.cnt[0][2] = 2 /\ fn.args.cnt[2][0] = 1
    /\ fn.args.cnt[2][1] = 2 /\ fn.args.cnt[1][2] = 0
    /\ fn.out.soleWinner = 0

\* ------------------------------------------------------------------------
\* The shuffle and the clients' own state.

\* A step of one of the four shuffles.
ShuffleStep ==
    pc \in {"shuffleVal", "shuffleMask", "voteShufflePairs", "voteShuffleDummies"}
\* What a vote client keeps for itself.
OwnState(c) ==
    <<c.SortedCandidate, c.PairFirst, c.PairSecond, c.PrivateX, c.PrivateY,
      c.PrivateMask, c.PrivateSalt, c.PublicCom>>
\* A shuffle step changes nothing a client holds.
ShuffleFrame ==
    ShuffleStep =>
        /\ UNCHANGED <<splittedSecretVal, splittedSecretMask, secretMask, secretSalt,
                       commitment>>
        /\ Len(clients') = Len(clients)
        /\ \A i \in 1 .. Len(clients) : OwnState(clients'[i]) = OwnState(clients[i])
\* What was submitted after the shuffle is over the client's committed values.
ProvedOverCommitted ==
    /\ \A i \in 1 .. Len(allProof) :
          /\ allProof[i].publicProd =
                (FingerprintOf(splittedSecretVal[i], publicRFr) * secretMask[i]) % FieldModulus
          /\ allProof[i].publicWitness.PublicProd = allProof[i].publicProd
          /\ allProof[i].publicWitness.PublicCommitment = commitment[i]
          /\ commitment[i] =
                [mimc |-> splittedSecretVal[i] \o <<secretMask[i], secretSalt[i]>>]
    /\ \A i \in 1 .. Len(allAssignment) :
          /\ allAssignment[i].PairFirstVar = clients[i].PairFirst
          /\ allAssignment[i].PairSecondVar = clients[i].PairSecond
          /\ allAssignment[i].PublicProd =
                (FingerprintOf(clients[i].PrivateX, publicRFr) * clients[i].PrivateMask)
                    % FieldModulus
          /\ allAssignment[i].PublicCommitment = clients[i].PublicCom
          /\ clients[i].PublicCom =
                [mimc |-> clients[i].PrivateX
                              \o <<clients[i].PrivateMask, clients[i].PrivateSalt>>]
    /\ \A i \in 1 .. Len(allSubmission) :
          allSubmission[i].publicProd = allAssignment[i].PublicProd
\* What the shuffler was sent is what the clients hold.
SentIsHeld ==
    /\ pc \in {"shuffleVal", "shuffleMask", "step2", "step3", "proofSize", "step4"} =>
          /\ SameMultiset(allSecretVal, SubmittedShares)
          /\ SameMultiset(allMask, SubmittedMasks)
    /\ pc \in {"voteShufflePairs", "voteStep2", "voteAssign", "voteProve"} =>
          SameMultiset(Zip(shuffledPairFirst, shuffledPairSecond),
                       Zip(SubmittedFirst, SubmittedSecond))
    /\ pc \in {"voteShuffleDummies", "voteVerify"} =>
          SameMultiset(allDummies, SubmittedDummies)

\* C29: a shuffle step leaves every client's share vector (pair list),
\* dummies, mask, salt and commitment as they were, so the PublicProd and the
\* public statement made after the shuffle are over the values the client
\* committed to and sent to the shuffler.
C29_ShuffleLeavesClientState ==
    /\ [][ShuffleFrame]_vars
    /\ []ProvedOverCommitted
    /\ []SentIsHeld

\* C29 witness: the shares were reordered by the shuffle, and every client
\* has proved over its own shares.
C29_Witness ==
    /\ pc = "step4"
    /\ allSecretVal # SubmittedShares
    /\ Len(allProof) = ClientNum
    /\ \A i \in Clients : ~allProof[i].proof.nil
    /\ publicRFr = 3

\* ------------------------------------------------------------------------
\* The shuffle of the vote pairs.

\* The (first, second) pairs the shuffler holds, by index.
ShuffledPairs == Zip(shuffledPairFirst, shuffledPairSecond)
\* The pair is an entry of some client's pair list.
InSomePairList(pr) ==
    \E i \in 1 .. Len(clients) : \E k \in 1 .. Len(clients[i].PairFirst) :
        pr = <<clients[i].PairFirst[k], clients[i].PairSecond[k]>>
\* The pairs are with the shuffler, unread by the server.
PairsShuffling == pc \in {"voteShufflePairs", "voteStep2", "voteAssign", "voteProve",
                          "voteSubmitDummies", "voteShuffleDummies", "voteVerify",
                          "voteCheck"}
PairsStayPairs ==
    PairsShuffling =>
        /\ Len(shuffledPairFirst) = Len(shuffledPairSecond)
        /\ \A k \in 1 .. Len(shuffledPairFirst) : InSomePairList(ShuffledPairs[k])
        /\ SameMultiset(ShuffledPairs, Zip(SubmittedFirst, SubmittedSecond))
\* A swap of the pair shuffle exchanges the same two indices in both arrays
\* and leaves the dummies; a swap of the dummy shuffle leaves the pairs.
SwapStep ==
    /\ pc = "voteShufflePairs" =>
          /\ \E j \in 1 .. idx :
                /\ shuffledPairFirst' = [shuffledPairFirst EXCEPT
                                            ![idx] = shuffledPairFirst[j],
                                            ![j] = shuffledPairFirst[idx]]
                /\ shuffledPairSecond' = [shuffledPairSecond EXCEPT
                                             ![idx] = shuffledPairSecond[j],
                                             ![j] = shuffledPairSecond[idx]]
          /\ UNCHANGED allDummies
    /\ pc = "voteShuffleDummies" =>
          /\ \E j \in 1 .. idx :
                allDummies' = [allDummies EXCEPT ![idx] = allDummies[j],
                                                 ![j] = allDummies[idx]]
          /\ UNCHANGED <<shuffledPairFirst, shuffledPairSecond>>

\* C30: the two components of the vote pairs are shuffled with the same
\* swaps: after every swap each index holds a (first, second) pair of some
\* client's pair list and the multiset of pairs is that of all the pair
\* lists; the dummies are shuffled by swaps of their own, in a shuffle that
\* does not touch the pairs.
C30_PairsShuffledTogether ==
    /\ []PairsStayPairs
    /\ [][SwapStep]_vars

\* C30 witness: the pairs arrive reordered while the two differing dummies
\* arrive in the order they were sent in.
C30_Witness ==
    /\ pc = "voteVerify"
    /\ ShuffledPairs # Zip(SubmittedFirst, SubmittedSecond)
    /\ allDummies = SubmittedDummies
    /\ allDummies[1] # allDummies[2]

====
